---- MODULE Spec2Model ----
(***************************************************************************)
(* Balance ledger (frame/evm-balances) layered on the account store        *)
(* (frame/evm-system): the account record, the try_mutate protocol with    *)
(* dust extraction, the imbalance tokens and the Currency operations.      *)
(*                                                                         *)
(* A "world" W is the record of everything an operation can touch:         *)
(*   W.Account           evm-system storage map  AccountId -> AccountInfo  *)
(*   W.TotalIssuance     evm-balances storage value                        *)
(*   W.InactiveIssuance  evm-balances storage value                        *)
(*   W.events            events deposited (and lifecycle callbacks fired)  *)
(* Operations are operators from a world to an outcome that carries the    *)
(* world they leave behind; closures are operator arguments.               *)
(***************************************************************************)
EXTENDS Integers, Sequences, FiniteSets, Bags, TLC

\* ---------------------------------------------------------------- bounds
AccountIds == {"alice", "bob", "charlie"}

\* The accounts calls are made with; the others only hold what genesis
\* gave them.
Actors == {"alice", "bob"}

\* Balance::max_value() of the (narrowed) unsigned Balance type.
max_value == 4

\* Largest nonce / reference count the model lets the counters reach.
MaxNonce == 1
MaxSufficients == 1

\* Largest reserved amount a genesis record holds.
MaxReserved == 1

\* Largest frozen amount a genesis record holds.
MaxFrozen == 1


\* Largest number of imbalance tokens alive between operations.
MaxTokens == 1

\* Largest number of imbalance tokens a caller of the token calls holds.
MaxHeld == 2

\* T::ExistentialDeposit::get()
ExistentialDeposit == 2

Balance == 0 .. max_value

\* ------------------------------------------------------------ arithmetic
Min(a, b) == IF a <= b THEN a ELSE b
Max(a, b) == IF a >= b THEN a ELSE b

saturating_add(a, b) == Min(a + b, max_value)
saturating_sub(a, b) == Max(a - b, 0)

\* checked_add / checked_sub are None exactly when these are FALSE.
checked_add_ok(a, b) == a + b <= max_value
checked_sub_ok(a, b) == a >= b

\* ----------------------------------------------------------- AccountData
AccountDataDefault ==
  [free |-> 0, reserved |-> 0, misc_frozen |-> 0, fee_frozen |-> 0]

frozen(d, reasons) ==
  CASE reasons = "All"  -> Max(d.misc_frozen, d.fee_frozen)
    [] reasons = "Misc" -> d.misc_frozen
    [] reasons = "Fee"  -> d.fee_frozen

usable(d, reasons) == saturating_sub(d.free, frozen(d, reasons))

total(d) == saturating_add(d.free, d.reserved)

\* ------------------------------------------------- evm-system: the store
None == [some |-> FALSE]
Some(x) == [some |-> TRUE, v |-> x]

\* The storage map holds Some(AccountInfo) under a key, or nothing.
Absent == None

AccountInfoDefault == [nonce |-> 0, sufficients |-> 0, data |-> AccountDataDefault]

account_exists(W, who) == W.Account[who].some

\* StorageMap::get under ValueQuery
StorageGet(W, who) ==
  IF account_exists(W, who) THEN W.Account[who].v ELSE AccountInfoDefault

\* StorageMap::mutate / insert under ValueQuery: the value is always written
StoragePut(W, who, info) == [W EXCEPT !.Account[who] = Some(info)]

StorageRemove(W, who) == [W EXCEPT !.Account[who] = Absent]

deposit_event(W, e) == [W EXCEPT !.events = Append(@, e)]

sufficients(W, who) == StorageGet(W, who).sufficients

account_nonce(W, who) == StorageGet(W, who).nonce

on_created_account(W, who) ==
  deposit_event(W, [kind |-> "NewAccount", account |-> who])

on_killed_account(W, who) ==
  deposit_event(W, [kind |-> "KilledAccount", account |-> who])

inc_account_nonce(W, who) ==
  LET a == StorageGet(W, who)
  IN  StoragePut(W, who, [a EXCEPT !.nonce = @ + 1])

\* create_account that fires on_created_account for every reference taken.
create_account_always_new(W, who) ==
  LET a == StorageGet(W, who)
  IN  IF a.sufficients = 0
      THEN [W |-> on_created_account(
                    StoragePut(W, who, [a EXCEPT !.sufficients = 1]), who),
            r |-> "Created"]
      ELSE [W |-> on_created_account(
                    StoragePut(W, who, [a EXCEPT !.sufficients = @ + 1]), who),
            r |-> "AlreadyExists"]


create_account(W, who) ==
  LET a == StorageGet(W, who)
  IN  IF a.sufficients = 0
      THEN [W |-> on_created_account(
                    StoragePut(W, who, [a EXCEPT !.sufficients = 1]), who),
            r |-> "Created"]
      ELSE [W |-> StoragePut(W, who, [a EXCEPT !.sufficients = @ + 1]),
            r |-> "AlreadyExists"]

\* remove_account that does not look at the balance payload.
remove_account_ignoring_data(W, who) ==
  IF ~account_exists(W, who)
  THEN [W |-> W, r |-> "DidNotExist"]
  ELSE [W |-> on_killed_account(StorageRemove(W, who), who), r |-> "Reaped"]


remove_account(W, who) ==
  IF ~account_exists(W, who)
  THEN [W |-> W, r |-> "DidNotExist"]
  ELSE IF StorageGet(W, who).data # AccountDataDefault
  THEN [W |-> W, r |-> "Retained"]
  ELSE [W |-> on_killed_account(StorageRemove(W, who), who), r |-> "Reaped"]

\* StoredMap::get
StoredMapGet(W, who) == StorageGet(W, who).data

\* The entry try_mutate_exists hands to its closure.
maybe_account_data(W, k) ==
  IF account_exists(W, k) THEN Some(StorageGet(W, k).data) ELSE None

\* Option::is_none, Option::unwrap_or_default
is_none(maybe) == ~maybe.some
unwrap_or_default(maybe) == IF maybe.some THEN maybe.v ELSE AccountDataDefault

\* try_mutate_exists that notifies of a new account on every write.
try_mutate_exists_always_new(W, k, o) ==
  LET was_providing == account_exists(W, k)
      put(W1, data) ==
        StoragePut(W1, k, [StorageGet(W1, k) EXCEPT !.data = data])
  IN  IF ~o.ok
      THEN [ok |-> FALSE, W |-> o.W, r |-> o.r]
      ELSE [ok |-> TRUE,
            r  |-> o.r,
            W  |-> CASE o.maybe.some ->
                          on_created_account(put(o.W, o.maybe.v), k)
                     [] ~o.maybe.some /\ was_providing ->
                          on_killed_account(StorageRemove(o.W, k), k)
                     [] OTHER -> o.W]


\* try_mutate_exists that writes a fresh record around the data it is left.
try_mutate_exists_fresh_record(W, k, o) ==
  LET was_providing == account_exists(W, k)
      put(W1, data) ==
        StoragePut(W1, k, [AccountInfoDefault EXCEPT !.data = data])
  IN  IF ~o.ok
      THEN [ok |-> FALSE, W |-> o.W, r |-> o.r]
      ELSE [ok |-> TRUE,
            r  |-> o.r,
            W  |-> CASE o.maybe.some /\ ~was_providing ->
                          on_created_account(put(o.W, o.maybe.v), k)
                     [] o.maybe.some /\ was_providing ->
                          put(o.W, o.maybe.v)
                     [] ~o.maybe.some /\ was_providing ->
                          on_killed_account(StorageRemove(o.W, k), k)
                     [] OTHER -> o.W]


\* StoredMap::try_mutate_exists.  o is what the closure f makes of
\* maybe_account_data(W, k): [ok, W, maybe, r] (r the value or the error),
\* W being the world as the closure left it.
try_mutate_exists(W, k, o) ==
  LET was_providing == account_exists(W, k)
      put(W1, data) ==
        StoragePut(W1, k, [StorageGet(W1, k) EXCEPT !.data = data])
  IN  IF ~o.ok
      THEN [ok |-> FALSE, W |-> o.W, r |-> o.r]
      ELSE [ok |-> TRUE,
            r  |-> o.r,
            W  |-> CASE o.maybe.some /\ ~was_providing ->
                          on_created_account(put(o.W, o.maybe.v), k)
                     [] o.maybe.some /\ was_providing ->
                          put(o.W, o.maybe.v)
                     [] ~o.maybe.some /\ was_providing ->
                          on_killed_account(StorageRemove(o.W, k), k)
                     [] OTHER -> o.W]

\* ------------------------------------------- evm-balances: imbalance drop
\* Drop for PositiveImbalance / NegativeImbalance: square up the issuance.
drop_positive(W, amount) ==
  [W EXCEPT !.TotalIssuance = saturating_add(@, amount)]

drop_negative(W, amount) ==
  [W EXCEPT !.TotalIssuance = saturating_sub(@, amount)]

\* T::DustRemoval::on_unbalanced: the sink disposes of the dust token.
DustRemoval_on_unbalanced(W, dust) == drop_negative(W, dust)

\* Drop for DustCleaner that hands the dust on without a DustLost event.
DustCleaner_drop_without_event(W, cleaner) ==
  IF cleaner.some THEN DustRemoval_on_unbalanced(W, cleaner.v.dust) ELSE W


\* Drop for DustCleaner; a cleaner is None or Some([who, dust]).
DustCleaner_drop(W, cleaner) ==
  IF cleaner.some
  THEN DustRemoval_on_unbalanced(
         deposit_event(W, [kind |-> "DustLost", account |-> cleaner.v.who,
                           amount |-> cleaner.v.dust]),
         cleaner.v.dust)
  ELSE W

\* ----------------------------------------- evm-balances: mutation protocol
account(W, who) == StoredMapGet(W, who)

\* post_mutation that hands on a dust token for an emptied account too.
post_mutation_zero_dust(who, new) ==
  IF total(new) < ExistentialDeposit THEN <<None, Some(total(new))>>
                                     ELSE <<Some(new), None>>


\* post_mutation that reaps an account below the existential deposit
\* without handing its balance on as a dust token.
post_mutation_no_dust(who, new) ==
  IF total(new) < ExistentialDeposit THEN <<None, None>>
                                     ELSE <<Some(new), None>>

\* post_mutation that keeps every account holding anything at all.
post_mutation_lax(who, new) ==
  IF total(new) = 0 THEN <<None, None>> ELSE <<Some(new), None>>

\* (Option<AccountData>, Option<NegativeImbalance>)
post_mutation(who, new) ==
  LET t == total(new)
  IN  IF t < ExistentialDeposit
      THEN IF t = 0 THEN <<None, None>> ELSE <<None, Some(t)>>
      ELSE <<Some(new), None>>

\* The arguments try_mutate_account_with_dust hands to its closure f.
account_arg(W, who) == unwrap_or_default(maybe_account_data(W, who))
is_new_arg(W, who) == is_none(maybe_account_data(W, who))

\* try_mutate_account_with_dust that deposits no Endowed event.
try_mutate_account_with_dust_no_endowed(W, who, o) ==
  LET mutated(pm) ==
        IF ~o.ok
        THEN [ok |-> FALSE, W |-> o.W, maybe |-> None, r |-> o.r]
        ELSE [ok |-> TRUE, W |-> o.W, maybe |-> pm[1],
              r |-> [maybe_dust |-> pm[2], result |-> o.r]]
      after(res) ==
        IF ~res.ok
        THEN [ok |-> FALSE, W |-> res.W, r |-> res.r, dust_cleaner |-> None]
        ELSE [ok |-> TRUE, W |-> res.W, r |-> res.r.result,
              dust_cleaner |-> IF res.r.maybe_dust.some
                               THEN Some([who |-> who,
                                          dust |-> res.r.maybe_dust.v])
                               ELSE None]
  IN  after(try_mutate_exists(W, who,
                              mutated(post_mutation(who, o.account))))


\* o is what the closure f makes of account_arg(W, who) and
\* is_new_arg(W, who): [ok, W, account, r].
try_mutate_account_with_dust(W, who, o) ==
  LET mutated(pm) ==
        IF ~o.ok
        THEN [ok |-> FALSE, W |-> o.W, maybe |-> None, r |-> o.r]
        ELSE [ok |-> TRUE, W |-> o.W, maybe |-> pm[1],
              r |-> [maybe_endowed |-> IF is_new_arg(W, who)
                                       THEN Some(o.account.free) ELSE None,
                     maybe_dust |-> pm[2],
                     result |-> o.r]]
      after(res) ==
        IF ~res.ok
        THEN [ok |-> FALSE, W |-> res.W, r |-> res.r, dust_cleaner |-> None]
        ELSE [ok |-> TRUE,
              W  |-> IF res.r.maybe_endowed.some
                     THEN deposit_event(res.W,
                            [kind |-> "Endowed", account |-> who,
                             free_balance |-> res.r.maybe_endowed.v])
                     ELSE res.W,
              r  |-> res.r.result,
              dust_cleaner |-> IF res.r.maybe_dust.some
                               THEN Some([who |-> who,
                                          dust |-> res.r.maybe_dust.v])
                               ELSE None]
  IN  after(try_mutate_exists(W, who,
                              mutated(post_mutation(who, o.account))))

try_mutate_account(W, who, o) ==
  LET after(res) ==
        [ok |-> res.ok, W |-> DustCleaner_drop(res.W, res.dust_cleaner),
         r |-> res.r]
  IN  after(try_mutate_account_with_dust(W, who, o))

\* ------------------------------------------------ evm-balances: Currency
PositiveImbalance(amount) == [polarity |-> "Positive", amount |-> amount]
NegativeImbalance(amount) == [polarity |-> "Negative", amount |-> amount]

\* What a successful call hands back: the imbalance tokens it returns and
\* the plain amount it returns beside them (0 when it returns none).
Returned(toks, n) == [tokens |-> toks, value |-> n]
Unit == Returned(<<>>, 0)

total_balance(W, who) == total(account(W, who))

\* burn that returns a token of the full amount when the issuance is short.
burn_unsaturated(W, amount) ==
  IF amount = 0
  THEN [W |-> W, r |-> Returned(<<PositiveImbalance(0)>>, 0)]
  ELSE [W |-> [W EXCEPT !.TotalIssuance = saturating_sub(@, amount)],
        r |-> Returned(<<PositiveImbalance(amount)>>, 0)]


\* burn / issue yield the world they leave and the token they return.
burn(W, amount) ==
  IF amount = 0
  THEN [W |-> W, r |-> Returned(<<PositiveImbalance(0)>>, 0)]
  ELSE IF checked_sub_ok(W.TotalIssuance, amount)
  THEN [W |-> [W EXCEPT !.TotalIssuance = @ - amount],
        r |-> Returned(<<PositiveImbalance(amount)>>, 0)]
  ELSE [W |-> [W EXCEPT !.TotalIssuance = 0],
        r |-> Returned(<<PositiveImbalance(W.TotalIssuance)>>, 0)]

issue(W, amount) ==
  IF amount = 0
  THEN [W |-> W, r |-> Returned(<<NegativeImbalance(0)>>, 0)]
  ELSE IF checked_add_ok(W.TotalIssuance, amount)
  THEN [W |-> [W EXCEPT !.TotalIssuance = @ + amount],
        r |-> Returned(<<NegativeImbalance(amount)>>, 0)]
  ELSE [W |-> [W EXCEPT !.TotalIssuance = max_value],
        r |-> Returned(<<NegativeImbalance(max_value - W.TotalIssuance)>>, 0)]

\* The issuance kept apart as inactive, and the total set outright.
deactivate(W, amount) ==
  [W EXCEPT !.InactiveIssuance = saturating_add(@, amount)]

reactivate(W, amount) ==
  [W EXCEPT !.InactiveIssuance = saturating_sub(@, amount)]

set_total_issuance(W, amount) == [W EXCEPT !.TotalIssuance = amount]


free_balance(W, who) == account(W, who).free

\* impl_currency.rs: no withdrawal restrictions.
ensure_can_withdraw(W, who, amount, reasons, new_balance) == TRUE

\* transfer's inner closure with one fault: a check left out
\* ("InsufficientBalance", "Overflow", "ExistentialDeposit", "KeepAlive"),
\* the source left undebited ("Debit"), or the debited source written
\* through to the store before the liveness check ("WriteThrough").
transfer_inner_faulty(W, who, from_account, to_account, value, existence_requirement, fault) ==
  LET Fail(e) == [ok |-> FALSE, W |-> W, account |-> from_account, r |-> e]
      from1 == IF fault = "Debit" THEN from_account
               ELSE [from_account EXCEPT !.free = @ - value]
      to1 == [to_account EXCEPT !.free = @ + value]
      W1 == IF fault = "WriteThrough"
            THEN StoragePut(W, who, [StorageGet(W, who) EXCEPT !.data = from1])
            ELSE W
  IN  IF fault # "InsufficientBalance"
           /\ ~checked_sub_ok(from_account.free, value)
        THEN Fail("InsufficientBalance")
      ELSE IF fault # "Overflow" /\ ~checked_add_ok(to_account.free, value)
        THEN Fail("Overflow")
      ELSE IF fault # "ExistentialDeposit"
                /\ ~(total(to1) >= ExistentialDeposit)
        THEN Fail("ExistentialDeposit")
      ELSE IF fault # "KeepAlive"
                /\ ~(existence_requirement = "AllowDeath"
                       \/ total(from1) >= ExistentialDeposit)
        THEN [ok |-> FALSE, W |-> W1, account |-> from_account,
              r |-> "KeepAlive"]
      ELSE [ok |-> TRUE, W |-> W, account |-> from1, r |-> to1]

transfer_inner_write_through(W, who, from_account, to_account, value, existence_requirement) ==
  transfer_inner_faulty(W, who, from_account, to_account, value,
                        existence_requirement, "WriteThrough")

transfer_inner_no_debit(W, who, from_account, to_account, value, existence_requirement) ==
  transfer_inner_faulty(W, who, from_account, to_account, value,
                        existence_requirement, "Debit")

transfer_inner_unchecked_sub(W, who, from_account, to_account, value, existence_requirement) ==
  transfer_inner_faulty(W, who, from_account, to_account, value,
                        existence_requirement, "InsufficientBalance")

transfer_inner_no_keep_alive(W, who, from_account, to_account, value, existence_requirement) ==
  transfer_inner_faulty(W, who, from_account, to_account, value,
                        existence_requirement, "KeepAlive")

transfer_inner_no_ed(W, who, from_account, to_account, value, existence_requirement) ==
  transfer_inner_faulty(W, who, from_account, to_account, value,
                        existence_requirement, "ExistentialDeposit")

transfer_inner_unchecked_add(W, who, from_account, to_account, value, existence_requirement) ==
  transfer_inner_faulty(W, who, from_account, to_account, value,
                        existence_requirement, "Overflow")

\* The inner closure of transfer, run on the source account with the
\* destination's working copy captured; r carries that copy on success.
transfer_inner(W, who, from_account, to_account, value, existence_requirement) ==
  LET Fail(e) == [ok |-> FALSE, W |-> W, account |-> from_account, r |-> e]
      from1 == [from_account EXCEPT !.free = @ - value]
      to1 == [to_account EXCEPT !.free = @ + value]
      allow_death == existence_requirement = "AllowDeath"
  IN  IF ~checked_sub_ok(from_account.free, value)
        THEN Fail("InsufficientBalance")
      ELSE IF ~checked_add_ok(to_account.free, value)
        THEN Fail("Overflow")
      ELSE IF ~(total(to1) >= ExistentialDeposit)
        THEN Fail("ExistentialDeposit")
      ELSE IF ~ensure_can_withdraw(W, who, value, "Misc", from1.free)
        THEN Fail("LiquidityRestrictions")
      ELSE IF ~(allow_death \/ total(from1) >= ExistentialDeposit)
        THEN Fail("KeepAlive")
      ELSE [ok |-> TRUE, W |-> W, account |-> from1, r |-> to1]

\* transfer without the early return for transactor = dest: the account is
\* entered twice, as source inside and as destination outside.
transfer_reentering(W, transactor, dest, value, existence_requirement) ==
  IF value = 0
  THEN [ok |-> TRUE, W |-> W, r |-> Unit]
  ELSE
    LET outer(W1, to_account, is_new_to) ==
          LET inner(W2, from_account, is_new_from) ==
                transfer_inner(W2, transactor, from_account, to_account,
                               value, existence_requirement)
              after(o) ==
                IF ~o.ok
                THEN [ok |-> FALSE, W |-> o.W, account |-> to_account,
                      r |-> o.r]
                ELSE [ok |-> TRUE, W |-> o.W, account |-> o.r,
                      r |-> o.dust_cleaner]
          IN  after(try_mutate_account_with_dust(W1, transactor,
                        inner(W1, account_arg(W1, transactor),
                              is_new_arg(W1, transactor))))
        done(res) ==
          IF ~res.ok
          THEN [ok |-> FALSE, W |-> res.W, r |-> res.r]
          ELSE [ok |-> TRUE,
                W  |-> deposit_event(
                         DustCleaner_drop(DustCleaner_drop(res.W, res.r),
                                          res.dust_cleaner),
                         [kind |-> "Transfer", from |-> transactor,
                          to |-> dest, amount |-> value]),
                r  |-> Unit]
    IN  done(try_mutate_account_with_dust(W, dest,
               outer(W, account_arg(W, dest), is_new_arg(W, dest))))

\* transfer that drops the dust cleaner of the source as soon as the source
\* is committed, inside the mutation of the destination.
transfer_eager_dust(W, transactor, dest, value, existence_requirement) ==
  IF value = 0 \/ transactor = dest
  THEN [ok |-> TRUE, W |-> W, r |-> Unit]
  ELSE
    LET outer(W1, to_account, is_new_to) ==
          LET inner(W2, from_account, is_new_from) ==
                transfer_inner(W2, transactor, from_account, to_account,
                               value, existence_requirement)
              after(o) ==
                IF ~o.ok
                THEN [ok |-> FALSE, W |-> o.W, account |-> to_account,
                      r |-> o.r]
                ELSE [ok |-> TRUE, W |-> o.W, account |-> o.r, r |-> None]
          IN  after(try_mutate_account(W1, transactor,
                        inner(W1, account_arg(W1, transactor),
                              is_new_arg(W1, transactor))))
        done(res) ==
          IF ~res.ok
          THEN [ok |-> FALSE, W |-> res.W, r |-> res.r]
          ELSE [ok |-> TRUE,
                W  |-> deposit_event(
                         DustCleaner_drop(res.W, res.dust_cleaner),
                         [kind |-> "Transfer", from |-> transactor,
                          to |-> dest, amount |-> value]),
                r  |-> Unit]
    IN  done(try_mutate_account_with_dust(W, dest,
               outer(W, account_arg(W, dest), is_new_arg(W, dest))))

transfer(W, transactor, dest, value, existence_requirement) ==
  IF value = 0 \/ transactor = dest
  THEN [ok |-> TRUE, W |-> W, r |-> Unit]
  ELSE
    LET outer(W1, to_account, is_new_to) ==
          LET inner(W2, from_account, is_new_from) ==
                transfer_inner(W2, transactor, from_account, to_account,
                               value, existence_requirement)
              after(o) ==
                IF ~o.ok
                THEN [ok |-> FALSE, W |-> o.W, account |-> to_account,
                      r |-> o.r]
                ELSE [ok |-> TRUE, W |-> o.W, account |-> o.r,
                      r |-> o.dust_cleaner]
          IN  after(try_mutate_account_with_dust(W1, transactor,
                        inner(W1, account_arg(W1, transactor),
                              is_new_arg(W1, transactor))))
        done(res) ==
          IF ~res.ok
          THEN [ok |-> FALSE, W |-> res.W, r |-> res.r]
          ELSE [ok |-> TRUE,
                W  |-> deposit_event(
                         DustCleaner_drop(DustCleaner_drop(res.W, res.r),
                                          res.dust_cleaner),
                         [kind |-> "Transfer", from |-> transactor,
                          to |-> dest, amount |-> value]),
                r  |-> Unit]
    IN  done(try_mutate_account_with_dust(W, dest,
               outer(W, account_arg(W, dest), is_new_arg(W, dest))))

slash_attempt(W, who, value, attempt) ==
  LET f(Wc, acc, is_new) ==
        LET best_value ==
              IF attempt = 0 THEN value
              ELSE Min(value, saturating_sub(acc.free, ExistentialDeposit))
            free_slash == Min(acc.free, best_value)
        IN  [ok |-> TRUE, W |-> Wc,
             account |-> [acc EXCEPT !.free = @ - free_slash],
             r |-> Returned(<<NegativeImbalance(free_slash)>>,
                            value - free_slash)]
  IN  try_mutate_account(W, who,
        f(W, account_arg(W, who), is_new_arg(W, who)))

slash(W, who, value) ==
  IF value = 0
  THEN [ok |-> TRUE, W |-> W, r |-> Returned(<<NegativeImbalance(0)>>, 0)]
  ELSE IF total_balance(W, who) = 0
  THEN [ok |-> TRUE, W |-> W, r |-> Returned(<<NegativeImbalance(0)>>, value)]
  ELSE
    LET Slashed(o) ==
          [ok |-> TRUE,
           W  |-> deposit_event(o.W,
                    [kind |-> "Slashed", who |-> who,
                     amount |-> saturating_sub(value, o.r.value)]),
           r  |-> o.r]
        second(a1) ==
          IF a1.ok THEN Slashed(a1)
          ELSE [ok |-> TRUE, W |-> a1.W,
                r |-> Returned(<<NegativeImbalance(0)>>, value)]
        first(a0) ==
          IF a0.ok THEN Slashed(a0)
          ELSE second(slash_attempt(a0.W, who, value, 1))
    IN  first(slash_attempt(W, who, value, 0))

\* deposit_into_existing without the check that the account exists.
deposit_into_existing_no_dead_check(W, who, value) ==
  IF value = 0
  THEN [ok |-> TRUE, W |-> W, r |-> Returned(<<PositiveImbalance(0)>>, 0)]
  ELSE
    LET f(Wc, acc, is_new) ==
          IF ~checked_add_ok(acc.free, value)
            THEN [ok |-> FALSE, W |-> Wc, account |-> acc, r |-> "Overflow"]
          ELSE [ok |-> TRUE,
                W  |-> deposit_event(Wc, [kind |-> "Deposit", who |-> who,
                                          amount |-> value]),
                account |-> [acc EXCEPT !.free = @ + value],
                r  |-> Returned(<<PositiveImbalance(value)>>, 0)]
    IN  try_mutate_account(W, who,
        f(W, account_arg(W, who), is_new_arg(W, who)))


deposit_into_existing(W, who, value) ==
  IF value = 0
  THEN [ok |-> TRUE, W |-> W, r |-> Returned(<<PositiveImbalance(0)>>, 0)]
  ELSE
    LET f(Wc, acc, is_new) ==
          IF is_new
            THEN [ok |-> FALSE, W |-> Wc, account |-> acc, r |-> "DeadAccount"]
          ELSE IF ~checked_add_ok(acc.free, value)
            THEN [ok |-> FALSE, W |-> Wc, account |-> acc, r |-> "Overflow"]
          ELSE [ok |-> TRUE,
                W  |-> deposit_event(Wc, [kind |-> "Deposit", who |-> who,
                                          amount |-> value]),
                account |-> [acc EXCEPT !.free = @ + value],
                r  |-> Returned(<<PositiveImbalance(value)>>, 0)]
    IN  try_mutate_account(W, who,
        f(W, account_arg(W, who), is_new_arg(W, who)))

\* deposit_creating without the existential-deposit check on a new account.
deposit_creating_no_ed_check(W, who, value) ==
  IF value = 0
  THEN [ok |-> TRUE, W |-> W, r |-> Returned(<<PositiveImbalance(0)>>, 0)]
  ELSE
    LET f(Wc, acc, is_new) ==
          IF ~checked_add_ok(acc.free, value)
            THEN [ok |-> TRUE, W |-> Wc, account |-> acc,
                  r |-> Returned(<<PositiveImbalance(0)>>, 0)]
          ELSE [ok |-> TRUE,
                W  |-> deposit_event(Wc, [kind |-> "Deposit", who |-> who,
                                          amount |-> value]),
                account |-> [acc EXCEPT !.free = @ + value],
                r  |-> Returned(<<PositiveImbalance(value)>>, 0)]
        unwrap_or_else(o) ==
          IF o.ok THEN o
          ELSE [ok |-> TRUE, W |-> o.W,
                r |-> Returned(<<PositiveImbalance(0)>>, 0)]
    IN  unwrap_or_else(try_mutate_account(W, who,
        f(W, account_arg(W, who), is_new_arg(W, who))))


\* deposit_creating without the early return for a value of zero.
deposit_creating_no_zero_return(W, who, value) ==
  LET f(Wc, acc, is_new) ==
        IF ~(value >= ExistentialDeposit \/ ~is_new)
          THEN [ok |-> FALSE, W |-> Wc, account |-> acc,
                r |-> "ExistentialDeposit"]
        ELSE IF ~checked_add_ok(acc.free, value)
          THEN [ok |-> TRUE, W |-> Wc, account |-> acc,
                r |-> Returned(<<PositiveImbalance(0)>>, 0)]
        ELSE [ok |-> TRUE,
              W  |-> deposit_event(Wc, [kind |-> "Deposit", who |-> who,
                                        amount |-> value]),
              account |-> [acc EXCEPT !.free = @ + value],
              r  |-> Returned(<<PositiveImbalance(value)>>, 0)]
      unwrap_or_else(o) ==
        IF o.ok THEN o
        ELSE [ok |-> TRUE, W |-> o.W,
              r |-> Returned(<<PositiveImbalance(0)>>, 0)]
  IN  unwrap_or_else(try_mutate_account(W, who,
        f(W, account_arg(W, who), is_new_arg(W, who))))

deposit_creating(W, who, value) ==
  IF value = 0
  THEN [ok |-> TRUE, W |-> W, r |-> Returned(<<PositiveImbalance(0)>>, 0)]
  ELSE
    LET f(Wc, acc, is_new) ==
          IF ~(value >= ExistentialDeposit \/ ~is_new)
            THEN [ok |-> FALSE, W |-> Wc, account |-> acc,
                  r |-> "ExistentialDeposit"]
          ELSE IF ~checked_add_ok(acc.free, value)
            THEN [ok |-> TRUE, W |-> Wc, account |-> acc,
                  r |-> Returned(<<PositiveImbalance(0)>>, 0)]
          ELSE [ok |-> TRUE,
                W  |-> deposit_event(Wc, [kind |-> "Deposit", who |-> who,
                                          amount |-> value]),
                account |-> [acc EXCEPT !.free = @ + value],
                r  |-> Returned(<<PositiveImbalance(value)>>, 0)]
        unwrap_or_else(o) ==
          IF o.ok THEN o
          ELSE [ok |-> TRUE, W |-> o.W,
                r |-> Returned(<<PositiveImbalance(0)>>, 0)]
    IN  unwrap_or_else(try_mutate_account(W, who,
        f(W, account_arg(W, who), is_new_arg(W, who))))

\* withdraw with one check left out: "InsufficientBalance" or "KeepAlive".
withdraw_faulty(W, who, value, reasons, liveness, fault) ==
  IF value = 0
  THEN [ok |-> TRUE, W |-> W, r |-> Returned(<<NegativeImbalance(0)>>, 0)]
  ELSE
    LET f(Wc, acc, is_new) ==
          LET Fail(e) == [ok |-> FALSE, W |-> Wc, account |-> acc, r |-> e]
              new_free_account == acc.free - value
              would_be_dead == new_free_account < ExistentialDeposit
              would_kill == would_be_dead /\ acc.free >= ExistentialDeposit
          IN  IF fault # "InsufficientBalance"
                   /\ ~checked_sub_ok(acc.free, value)
                THEN Fail("InsufficientBalance")
              ELSE IF fault # "KeepAlive"
                        /\ ~(liveness = "AllowDeath" \/ ~would_kill)
                THEN Fail("KeepAlive")
              ELSE [ok |-> TRUE,
                    W  |-> deposit_event(Wc, [kind |-> "Withdraw",
                                              who |-> who, amount |-> value]),
                    account |-> [acc EXCEPT !.free = new_free_account],
                    r  |-> Returned(<<NegativeImbalance(value)>>, 0)]
    IN  try_mutate_account(W, who,
          f(W, account_arg(W, who), is_new_arg(W, who)))

withdraw_unchecked_sub(W, who, value, reasons, liveness) ==
  withdraw_faulty(W, who, value, reasons, liveness, "InsufficientBalance")

withdraw_no_keep_alive(W, who, value, reasons, liveness) ==
  withdraw_faulty(W, who, value, reasons, liveness, "KeepAlive")


withdraw(W, who, value, reasons, liveness) ==
  IF value = 0
  THEN [ok |-> TRUE, W |-> W, r |-> Returned(<<NegativeImbalance(0)>>, 0)]
  ELSE
    LET f(Wc, acc, is_new) ==
          LET Fail(e) == [ok |-> FALSE, W |-> Wc, account |-> acc, r |-> e]
              new_free_account == acc.free - value
              would_be_dead == new_free_account < ExistentialDeposit
              would_kill == would_be_dead /\ acc.free >= ExistentialDeposit
          IN  IF ~checked_sub_ok(acc.free, value)
                THEN Fail("InsufficientBalance")
              ELSE IF ~(liveness = "AllowDeath" \/ ~would_kill)
                THEN Fail("KeepAlive")
              ELSE IF ~ensure_can_withdraw(Wc, who, value, reasons,
                                           new_free_account)
                THEN Fail("LiquidityRestrictions")
              ELSE [ok |-> TRUE,
                    W  |-> deposit_event(Wc, [kind |-> "Withdraw",
                                              who |-> who, amount |-> value]),
                    account |-> [acc EXCEPT !.free = new_free_account],
                    r  |-> Returned(<<NegativeImbalance(value)>>, 0)]
    IN  try_mutate_account(W, who,
        f(W, account_arg(W, who), is_new_arg(W, who)))

\* make_free_balance_be without the existential-deposit check on a new
\* account.
make_free_balance_be_no_ed_check(W, who, value) ==
  LET f(Wc, acc, is_new) ==
        [ok |-> TRUE,
         W  |-> deposit_event(Wc, [kind |-> "BalanceSet", who |-> who,
                                   free |-> value]),
         account |-> [acc EXCEPT !.free = value],
         r  |-> Returned(
                  <<IF acc.free <= value
                    THEN PositiveImbalance(value - acc.free)
                    ELSE NegativeImbalance(acc.free - value)>>, 0)]
  IN  try_mutate_account(W, who,
        f(W, account_arg(W, who), is_new_arg(W, who)))


\* make_free_balance_be that hands back a positive token whichever way the
\* balance moves.
make_free_balance_be_always_positive(W, who, value) ==
  LET f(Wc, acc, is_new) ==
        IF ~(value >= ExistentialDeposit \/ ~is_new)
        THEN [ok |-> FALSE, W |-> Wc, account |-> acc,
              r |-> "ExistentialDeposit"]
        ELSE [ok |-> TRUE,
              W  |-> deposit_event(Wc, [kind |-> "BalanceSet", who |-> who,
                                        free |-> value]),
              account |-> [acc EXCEPT !.free = value],
              r  |-> Returned(
                       <<IF acc.free <= value
                         THEN PositiveImbalance(value - acc.free)
                         ELSE PositiveImbalance(acc.free - value)>>, 0)]
      unwrap_or_else(o) ==
        IF o.ok THEN o
        ELSE [ok |-> TRUE, W |-> o.W,
              r |-> Returned(<<PositiveImbalance(0)>>, 0)]
  IN  unwrap_or_else(try_mutate_account(W, who,
        f(W, account_arg(W, who), is_new_arg(W, who))))


make_free_balance_be(W, who, value) ==
  LET f(Wc, acc, is_new) ==
        IF ~(value >= ExistentialDeposit \/ ~is_new)
        THEN [ok |-> FALSE, W |-> Wc, account |-> acc,
              r |-> "ExistentialDeposit"]
        ELSE [ok |-> TRUE,
              W  |-> deposit_event(Wc, [kind |-> "BalanceSet", who |-> who,
                                        free |-> value]),
              account |-> [acc EXCEPT !.free = value],
              r  |-> Returned(
                       <<IF acc.free <= value
                         THEN PositiveImbalance(value - acc.free)
                         ELSE NegativeImbalance(acc.free - value)>>, 0)]
      unwrap_or_else(o) ==
        IF o.ok THEN o
        ELSE [ok |-> TRUE, W |-> o.W,
              r |-> Returned(<<PositiveImbalance(0)>>, 0)]
  IN  unwrap_or_else(try_mutate_account(W, who,
        f(W, account_arg(W, who), is_new_arg(W, who))))

\* ------------------------------------------------ evm-balances: fungible
\* reducible_balance that counts no reserved balance towards what must
\* remain.
reducible_balance_ignoring_reserved(W, who, preservation) ==
  LET a == account(W, who)
      liquid == a.free
  IN  IF preservation = "Expendable" THEN liquid
      ELSE saturating_sub(liquid, ExistentialDeposit)


reducible_balance(W, who, preservation) ==
  LET a == account(W, who)
      liquid == a.free
      must_remain_to_exist ==
        saturating_sub(ExistentialDeposit, total(a) - liquid)
  IN  IF preservation = "Expendable" THEN liquid
      ELSE saturating_sub(liquid, must_remain_to_exist)

\* mutate_account: the mutation protocol with a closure that cannot fail;
\* the dust amount is handed back to the caller instead of to a cleaner.
mutate_account(W, who, o) ==
  LET after(res) ==
        [ok |-> res.ok, W |-> res.W, r |-> res.r,
         maybe_dust |-> IF res.dust_cleaner.some
                        THEN Some(res.dust_cleaner.v.dust) ELSE None]
  IN  after(try_mutate_account_with_dust(W, who, o))

handle_dust(W, dust) == DustRemoval_on_unbalanced(W, dust)

write_balance(W, who, amount) ==
  LET max_reduction == reducible_balance(W, who, "Expendable")
      f(Wc, acc, is_new) ==
        LET reduction == saturating_sub(acc.free, amount)
        IN  IF ~(reduction <= max_reduction)
            THEN [ok |-> TRUE, W |-> Wc, account |-> acc,
                  r |-> "InsufficientBalance"]
            ELSE [ok |-> TRUE, W |-> Wc,
                  account |-> [acc EXCEPT !.free = amount], r |-> "Ok"]
      after(o) ==
        IF ~o.ok \/ o.r # "Ok"
        THEN [ok |-> FALSE, W |-> o.W, r |-> o.r, maybe_dust |-> None]
        ELSE [ok |-> TRUE, W |-> o.W, r |-> Unit, maybe_dust |-> o.maybe_dust]
  IN  after(mutate_account(W, who,
              f(W, account_arg(W, who), is_new_arg(W, who))))

\* ------------------------------------- evm-balances: fungible::Mutate
\* done_burn_from that deposits no event.
done_burn_from_silent(W, who, amount) == W

done_burn_from(W, who, amount) ==
  deposit_event(W, [kind |-> "Burned", who |-> who, amount |-> amount])

balance(W, who) == total(account(W, who))

Precisions == {"Exact", "BestEffort"}

\* Unbalanced::decrease_balance, the default method of the trait: clamp a
\* best-effort amount to the reducible balance, write the balance less the
\* amount, hand any dust to handle_dust, answer what came off.
decrease_balance(W, who, amount, precision, preservation) ==
  LET old_balance == balance(W, who)
      free == reducible_balance(W, who, preservation)
      amt == IF precision = "BestEffort" THEN Min(amount, free) ELSE amount
  IN  IF ~checked_sub_ok(old_balance, amt)
      THEN [ok |-> FALSE, W |-> W, r |-> "FundsUnavailable"]
      ELSE LET new_balance == old_balance - amt
               o == write_balance(W, who, new_balance)
           IN  IF ~o.ok
               THEN [ok |-> FALSE, W |-> W, r |-> o.r]
               ELSE [ok |-> TRUE,
                     W  |-> IF o.maybe_dust.some
                            THEN handle_dust(o.W, o.maybe_dust.v) ELSE o.W,
                     r  |-> saturating_sub(old_balance, new_balance)]

\* Mutate::burn_from, the default method of the trait, over the
\* reducible_balance, write_balance, handle_dust, set_total_issuance and
\* done_burn_from of impl_fungible.rs.  A failing call is rolled back whole.
burn_from(W, who, amount, precision) ==
  LET actual == Min(reducible_balance(W, who, "Expendable"), amount)
  IN  IF ~(actual = amount \/ precision = "BestEffort")
      THEN [ok |-> FALSE, W |-> W, r |-> "FundsUnavailable"]
      ELSE IF ~checked_sub_ok(W.TotalIssuance, actual)
      THEN [ok |-> FALSE, W |-> W, r |-> "Overflow"]
      ELSE LET d == decrease_balance(W, who, actual, "BestEffort",
                                     "Expendable")
           IN  IF ~d.ok
               THEN [ok |-> FALSE, W |-> W, r |-> d.r]
               ELSE [ok |-> TRUE,
                     W  |-> done_burn_from(
                              set_total_issuance(d.W,
                                saturating_sub(d.W.TotalIssuance, d.r)),
                              who, d.r),
                     r  |-> Returned(<<>>, d.r)]


\* --------------------- evm-balances, lib.rs: the Currency that reads the
\* reserved balance and the frozen amounts
\* From<WithdrawReasons> for Reasons; r is a set of WithdrawReasons flags.
ReasonsFrom(r) ==
  IF r = {"TRANSACTION_PAYMENT"} THEN "Fee"
  ELSE IF "TRANSACTION_PAYMENT" \in r THEN "All"
  ELSE "Misc"

\* ensure_can_withdraw that refuses a new balance equal to the frozen amount.
lib_ensure_can_withdraw_strict(W, who, amount, reasons, new_balance) ==
  IF amount = 0 THEN TRUE
  ELSE LET min_balance == frozen(account(W, who), ReasonsFrom(reasons))
       IN  new_balance > min_balance


lib_ensure_can_withdraw(W, who, amount, reasons, new_balance) ==
  IF amount = 0 THEN TRUE
  ELSE LET min_balance == frozen(account(W, who), ReasonsFrom(reasons))
       IN  new_balance >= min_balance

\* lib.rs withdraw with one check left out: "KeepAlive" or
\* "LiquidityRestrictions".
lib_withdraw_faulty(W, who, value, reasons, liveness, fault) ==
  IF value = 0
  THEN [ok |-> TRUE, W |-> W, r |-> Returned(<<NegativeImbalance(0)>>, 0)]
  ELSE
    LET f(Wc, acc, is_new) ==
          LET Fail(e) == [ok |-> FALSE, W |-> Wc, account |-> acc, r |-> e]
              new_free_account == acc.free - value
              would_be_dead ==
                new_free_account + acc.reserved < ExistentialDeposit
              would_kill ==
                would_be_dead /\ acc.free + acc.reserved >= ExistentialDeposit
          IN  IF ~checked_sub_ok(acc.free, value)
                THEN Fail("InsufficientBalance")
              ELSE IF fault # "KeepAlive"
                        /\ ~(liveness = "AllowDeath" \/ ~would_kill)
                THEN Fail("KeepAlive")
              ELSE IF fault # "LiquidityRestrictions"
                        /\ ~lib_ensure_can_withdraw(Wc, who, value, reasons,
                                                    new_free_account)
                THEN Fail("LiquidityRestrictions")
              ELSE [ok |-> TRUE,
                    W  |-> deposit_event(Wc, [kind |-> "Withdraw",
                                              who |-> who, amount |-> value]),
                    account |-> [acc EXCEPT !.free = new_free_account],
                    r  |-> Returned(<<NegativeImbalance(value)>>, 0)]
    IN  try_mutate_account(W, who,
          f(W, account_arg(W, who), is_new_arg(W, who)))

lib_withdraw_no_keep_alive(W, who, value, reasons, liveness) ==
  lib_withdraw_faulty(W, who, value, reasons, liveness, "KeepAlive")

lib_withdraw_no_floor(W, who, value, reasons, liveness) ==
  lib_withdraw_faulty(W, who, value, reasons, liveness,
                      "LiquidityRestrictions")

lib_withdraw(W, who, value, reasons, liveness) ==
  IF value = 0
  THEN [ok |-> TRUE, W |-> W, r |-> Returned(<<NegativeImbalance(0)>>, 0)]
  ELSE
    LET f(Wc, acc, is_new) ==
          LET Fail(e) == [ok |-> FALSE, W |-> Wc, account |-> acc, r |-> e]
              new_free_account == acc.free - value
              would_be_dead ==
                new_free_account + acc.reserved < ExistentialDeposit
              would_kill ==
                would_be_dead /\ acc.free + acc.reserved >= ExistentialDeposit
          IN  IF ~checked_sub_ok(acc.free, value)
                THEN Fail("InsufficientBalance")
              ELSE IF ~(liveness = "AllowDeath" \/ ~would_kill)
                THEN Fail("KeepAlive")
              ELSE IF ~lib_ensure_can_withdraw(Wc, who, value, reasons,
                                               new_free_account)
                THEN Fail("LiquidityRestrictions")
              ELSE [ok |-> TRUE,
                    W  |-> deposit_event(Wc, [kind |-> "Withdraw",
                                              who |-> who, amount |-> value]),
                    account |-> [acc EXCEPT !.free = new_free_account],
                    r  |-> Returned(<<NegativeImbalance(value)>>, 0)]
    IN  try_mutate_account(W, who,
          f(W, account_arg(W, who), is_new_arg(W, who)))

\* One attempt of lib.rs slash: what the free balance does not cover is
\* taken from the reserved balance.
lib_slash_attempt(W, who, value, attempt) ==
  LET f(Wc, acc, is_new) ==
        LET best_value ==
              IF attempt = 0 THEN value
              ELSE Min(value, saturating_sub(acc.free + acc.reserved,
                                             ExistentialDeposit))
            free_slash == Min(acc.free, best_value)
            remaining_slash == best_value - free_slash
            reserved_slash == Min(acc.reserved, remaining_slash)
        IN  IF remaining_slash # 0
            THEN [ok |-> TRUE, W |-> Wc,
                  account |-> [acc EXCEPT !.free = @ - free_slash,
                                          !.reserved = @ - reserved_slash],
                  r |-> Returned(
                          <<NegativeImbalance(free_slash + reserved_slash)>>,
                          value - free_slash - reserved_slash)]
            ELSE [ok |-> TRUE, W |-> Wc,
                  account |-> [acc EXCEPT !.free = @ - free_slash],
                  r |-> Returned(<<NegativeImbalance(free_slash)>>,
                                 value - free_slash)]
  IN  try_mutate_account(W, who,
        f(W, account_arg(W, who), is_new_arg(W, who)))

\* lib.rs slash without the early return for an account whose total is zero.
lib_slash_no_total_check(W, who, value) ==
  IF value = 0
  THEN [ok |-> TRUE, W |-> W, r |-> Returned(<<NegativeImbalance(0)>>, 0)]
  ELSE
    LET Slashed(o) ==
          [ok |-> TRUE,
           W  |-> deposit_event(o.W,
                    [kind |-> "Slashed", who |-> who,
                     amount |-> saturating_sub(value, o.r.value)]),
           r  |-> o.r]
        second(a1) ==
          IF a1.ok THEN Slashed(a1)
          ELSE [ok |-> TRUE, W |-> a1.W,
                r |-> Returned(<<NegativeImbalance(0)>>, value)]
        first(a0) ==
          IF a0.ok THEN Slashed(a0)
          ELSE second(lib_slash_attempt(a0.W, who, value, 1))
    IN  first(lib_slash_attempt(W, who, value, 0))


lib_slash(W, who, value) ==
  IF value = 0
  THEN [ok |-> TRUE, W |-> W, r |-> Returned(<<NegativeImbalance(0)>>, 0)]
  ELSE IF total_balance(W, who) = 0
  THEN [ok |-> TRUE, W |-> W, r |-> Returned(<<NegativeImbalance(0)>>, value)]
  ELSE
    LET Slashed(o) ==
          [ok |-> TRUE,
           W  |-> deposit_event(o.W,
                    [kind |-> "Slashed", who |-> who,
                     amount |-> saturating_sub(value, o.r.value)]),
           r  |-> o.r]
        second(a1) ==
          IF a1.ok THEN Slashed(a1)
          ELSE [ok |-> TRUE, W |-> a1.W,
                r |-> Returned(<<NegativeImbalance(0)>>, value)]
        first(a0) ==
          IF a0.ok THEN Slashed(a0)
          ELSE second(lib_slash_attempt(a0.W, who, value, 1))
    IN  first(lib_slash_attempt(W, who, value, 0))


\* A DepositConsequence or WithdrawConsequence: its variant and the amount
\* it carries (0 when it carries none).
Consequence(kind, n) == [kind |-> kind, value |-> n]

\* deposit_consequence that looks at the minimum before the issuance.
deposit_consequence_minimum_first(W, who, amount, acc, mint) ==
  IF amount = 0 THEN Consequence("Success", 0)
  ELSE IF ~checked_add_ok(total(acc), amount)
    THEN Consequence("Overflow", 0)
  ELSE IF total(acc) + amount < ExistentialDeposit
    THEN Consequence("BelowMinimum", 0)
  ELSE IF mint /\ ~checked_add_ok(W.TotalIssuance, amount)
    THEN Consequence("Overflow", 0)
  ELSE Consequence("Success", 0)

deposit_consequence(W, who, amount, acc, mint) ==
  IF amount = 0 THEN Consequence("Success", 0)
  ELSE IF mint /\ ~checked_add_ok(W.TotalIssuance, amount)
    THEN Consequence("Overflow", 0)
  ELSE IF ~checked_add_ok(total(acc), amount)
    THEN Consequence("Overflow", 0)
  ELSE IF total(acc) + amount < ExistentialDeposit
    THEN Consequence("BelowMinimum", 0)
  ELSE Consequence("Success", 0)

\* withdraw_consequence without the check of the frozen balance.
withdraw_consequence_no_frozen(W, who, amount, acc) ==
  IF amount = 0 THEN Consequence("Success", 0)
  ELSE IF ~checked_sub_ok(W.TotalIssuance, amount)
    THEN Consequence("Underflow", 0)
  ELSE IF ~checked_sub_ok(total(acc), amount)
    THEN Consequence("NoFunds", 0)
  ELSE IF ~checked_sub_ok(acc.free, amount)
    THEN Consequence("NoFunds", 0)
  ELSE IF total(acc) - amount < ExistentialDeposit
    THEN Consequence("ReducedToZero", total(acc) - amount)
  ELSE Consequence("Success", 0)

withdraw_consequence(W, who, amount, acc) ==
  LET new_total_balance == total(acc) - amount
      success == IF new_total_balance < ExistentialDeposit
                 THEN Consequence("ReducedToZero", new_total_balance)
                 ELSE Consequence("Success", 0)
      new_free_balance == acc.free - amount
      min_balance == frozen(acc, "All")
  IN  IF amount = 0 THEN Consequence("Success", 0)
      ELSE IF ~checked_sub_ok(W.TotalIssuance, amount)
        THEN Consequence("Underflow", 0)
      ELSE IF ~checked_sub_ok(total(acc), amount)
        THEN Consequence("NoFunds", 0)
      ELSE IF ~checked_sub_ok(acc.free, amount)
        THEN Consequence("NoFunds", 0)
      ELSE IF new_free_balance < min_balance
        THEN Consequence("Frozen", 0)
      ELSE success

\* fungible::Inspect of lib.rs.
can_deposit(W, who, amount, mint) ==
  deposit_consequence(W, who, amount, account(W, who), mint)

can_withdraw(W, who, amount) ==
  withdraw_consequence(W, who, amount, account(W, who))


\* --------------------------------------------- imbalances: token algebra
\* Each yields the world it leaves (the inputs are forgotten, not dropped)
\* and the tokens that come out.
Opposite(p) == IF p = "Positive" THEN "Negative" ELSE "Positive"

drop(W, t) ==
  IF t.polarity = "Positive" THEN drop_positive(W, t.amount)
                             ELSE drop_negative(W, t.amount)

\* split that lets self go out of scope instead of forgetting it.
split_dropping(W, self, amount) ==
  LET first == Min(self.amount, amount)
      second == self.amount - first
  IN  [W |-> drop(W, self),
       tokens |-> <<[self EXCEPT !.amount = first],
                    [self EXCEPT !.amount = second]>>]

split(W, self, amount) ==
  LET first == Min(self.amount, amount)
      second == self.amount - first
  IN  [W |-> W,
       tokens |-> <<[self EXCEPT !.amount = first],
                    [self EXCEPT !.amount = second]>>]

\* merge that lets other go out of scope instead of forgetting it.
merge_dropping(W, self, other) ==
  [W |-> drop(W, other),
   tokens |-> <<[self EXCEPT !.amount = saturating_add(@, other.amount)]>>]


merge(W, self, other) ==
  [W |-> W,
   tokens |-> <<[self EXCEPT !.amount = saturating_add(@, other.amount)]>>]

subsume(W, self, other) ==
  [W |-> W,
   tokens |-> <<[self EXCEPT !.amount = saturating_add(@, other.amount)]>>]

\* offset whose residue always has the polarity of self.
offset_same_side(W, self, other) ==
  LET a == self.amount
      b == other.amount
  IN  [W |-> W,
       tokens |-> IF a > b THEN <<[self EXCEPT !.amount = a - b]>>
                  ELSE IF b > a THEN <<[self EXCEPT !.amount = b - a]>>
                  ELSE <<>>]


offset(W, self, other) ==
  LET a == self.amount
      b == other.amount
  IN  [W |-> W,
       tokens |-> IF a > b THEN <<[self EXCEPT !.amount = a - b]>>
                  ELSE IF b > a THEN <<[other EXCEPT !.amount = b - a]>>
                  ELSE <<>>]

\* ================================================================ state
VARIABLES
  Account,           \* evm-system: Account storage map
  TotalIssuance,     \* evm-balances: TotalIssuance storage value
  InactiveIssuance,  \* evm-balances: InactiveIssuance storage value
  events,            \* events deposited by the latest call
  tokens,            \* bag of the imbalance tokens alive between calls
  call,              \* the latest call: the operation's name
  result             \* what the latest call returned

vars == <<Account, TotalIssuance, InactiveIssuance, events, tokens, call, result>>

\* The world a call starts from.
World ==
  [Account |-> Account, TotalIssuance |-> TotalIssuance,
   InactiveIssuance |-> InactiveIssuance, events |-> <<>>]

TotalOf(A, who) ==
  IF A[who].some THEN total(A[who].v.data) ELSE 0

RECURSIVE SumTotalsOver(_, _)
SumTotalsOver(A, S) ==
  IF S = {} THEN 0
  ELSE LET who == CHOOSE y \in S : TRUE
       IN  TotalOf(A, who) + SumTotalsOver(A, S \ {who})

SumOfTotals(A) == SumTotalsOver(A, AccountIds)

\* Records a genesis build can hold for an account that makes calls: a
\* funded account, no references yet, with at most maxres reserved.
GenesisRecords(maxres) ==
  { [nonce |-> 0, sufficients |-> 0,
     data |-> [free |-> f, reserved |-> r, misc_frozen |-> 0, fee_frozen |-> 0]] :
      f \in Balance, r \in 0 .. maxres }

\* The genesis record of an account nobody calls with: the minimum balance.
Bystander ==
  [nonce |-> 0, sufficients |-> 0,
   data |-> [AccountDataDefault EXCEPT !.free = ExistentialDeposit]]

\* Genesis: every account absent or funded with at least the existential
\* deposit, and the issuance equal to the sum of the balances.
Genesis(maxres, others) ==
  /\ Account \in [AccountIds ->
                    {Some(g) : g \in GenesisRecords(maxres)} \cup {Absent}]
  /\ \A who \in AccountIds \ Actors : Account[who] \in others
  /\ \A who \in AccountIds :
        Account[who].some =>
          /\ Account[who].v.data.free + Account[who].v.data.reserved <= max_value
          /\ total(Account[who].v.data) >= ExistentialDeposit
  /\ SumOfTotals(Account) <= max_value
  /\ TotalIssuance = SumOfTotals(Account)
  /\ InactiveIssuance = 0
  /\ events = <<>>
  /\ tokens = EmptyBag
  /\ call = "genesis"
  /\ result = [status |-> "Ok", value |-> 0]

Init == Genesis(0, {Absent})

InitReserved == Genesis(MaxReserved, {Absent, Some(Bystander)})

RECURSIVE SeqToBag(_)
SeqToBag(s) ==
  IF s = <<>> THEN EmptyBag ELSE SetToBag({Head(s)}) (+) SeqToBag(Tail(s))

\* The caller lets the tokens of s go out of scope, first to last.
RECURSIVE drop_all(_, _)
drop_all(W, s) ==
  IF s = <<>> THEN W ELSE drop_all(drop(W, Head(s)), Tail(s))

\* A call ends in world W with the given status, handing back ret, having
\* consumed some live tokens.  A caller that holds tokens (hold > 0, the
\* most it holds at a time) keeps those handed back alive until something
\* consumes them; otherwise it lets them go at once (let _ = ...).
Finish(c, W, status, ret, consumed, hold) ==
  \E Wf \in {IF hold > 0 THEN W ELSE drop_all(W, ret.tokens)},
     live \in {IF hold > 0 THEN (tokens (-) consumed) (+) SeqToBag(ret.tokens)
                           ELSE tokens (-) consumed} :
      /\ BagCardinality(live) <= hold
      /\ Account' = Wf.Account
      /\ TotalIssuance' = Wf.TotalIssuance
      /\ InactiveIssuance' = Wf.InactiveIssuance
      /\ events' = Wf.events
      /\ tokens' = live
      /\ call' = c
      /\ result' = [status |-> status, value |-> ret.value]

\* A Currency call ends: o is [ok, W, r], r the error when it failed.
FinishCall(c, outcome, hold) ==
  \E o \in {outcome} :
    Finish(c, o.W, IF o.ok THEN "Ok" ELSE o.r, IF o.ok THEN o.r ELSE Unit,
           EmptyBag, hold)

ExistenceRequirements == {"KeepAlive", "AllowDeath"}

\* The withdraw reasons the calls are made with.  ensure_can_withdraw of
\* impl_currency.rs ignores its reasons, so one value stands for all.
WithdrawReasons == {"All"}

\* transfer returns no token; a transfer to oneself is told apart in call.
Transfer(hold) ==
  \E s \in Actors, d \in Actors, v \in Balance, e \in ExistenceRequirements :
    FinishCall(IF s = d THEN "transfer_to_self" ELSE "transfer",
               transfer(World, s, d, v, e), hold)

Slash(hold) ==
  \E who \in Actors, v \in Balance :
    FinishCall("slash", slash(World, who, v), hold)

DepositIntoExisting(hold) ==
  \E who \in Actors, v \in Balance :
    FinishCall("deposit_into_existing",
               deposit_into_existing(World, who, v), hold)

DepositCreating(hold) ==
  \E who \in Actors, v \in Balance :
    FinishCall("deposit_creating", deposit_creating(World, who, v), hold)

Withdraw(hold) ==
  \E who \in Actors, v \in Balance, r \in WithdrawReasons,
     l \in ExistenceRequirements :
    FinishCall("withdraw", withdraw(World, who, v, r, l), hold)

MakeFreeBalanceBe(hold) ==
  \E who \in Actors, v \in Balance :
    FinishCall("make_free_balance_be",
               make_free_balance_be(World, who, v), hold)

\* A held token goes out of scope.
DropToken ==
  \E t \in BagToSet(tokens) :
    Finish("drop", drop(World, t), "Ok", Unit, SetToBag({t}),
           BagCardinality(tokens))

\* The Currency calls, the caller holding the tokens they return.
NextCurrency ==
  \/ Transfer(MaxTokens)
  \/ Slash(MaxTokens)
  \/ DepositIntoExisting(MaxTokens)
  \/ DepositCreating(MaxTokens)
  \/ Withdraw(MaxTokens)
  \/ MakeFreeBalanceBe(MaxTokens)
  \/ DropToken

SpecCurrency == InitReserved /\ [][NextCurrency]_vars

\* ------------------------------------------------------ the token calls
Burn ==
  \E v \in Balance :
    \E o \in {burn(World, v)} : Finish("burn", o.W, "Ok", o.r, EmptyBag, MaxHeld)

Issue ==
  \E v \in Balance :
    \E o \in {issue(World, v)} : Finish("issue", o.W, "Ok", o.r, EmptyBag, MaxHeld)

\* A call that consumes held tokens ends: o is [W, tokens].
FinishTokens(c, o, consumed) ==
  Finish(c, o.W, "Ok", Returned(o.tokens, 0), consumed, MaxHeld)

Split ==
  \E t \in BagToSet(tokens), v \in Balance :
    FinishTokens("split", split(World, t, v), SetToBag({t}))

\* Two held tokens of one polarity (the same value twice when the bag holds
\* two copies of it).
SamePolarityPairs ==
  { p \in BagToSet(tokens) \X BagToSet(tokens) :
      /\ p[1].polarity = p[2].polarity
      /\ p[1] = p[2] => CopiesIn(p[1], tokens) >= 2 }

OppositePairs ==
  { p \in BagToSet(tokens) \X BagToSet(tokens) :
      p[2].polarity = Opposite(p[1].polarity) }

Merge ==
  \E p \in SamePolarityPairs :
    FinishTokens("merge", merge(World, p[1], p[2]),
                 SetToBag({p[1]}) (+) SetToBag({p[2]}))

Subsume ==
  \E p \in SamePolarityPairs :
    FinishTokens("subsume", subsume(World, p[1], p[2]),
                 SetToBag({p[1]}) (+) SetToBag({p[2]}))

Offset ==
  \E p \in OppositePairs :
    FinishTokens("offset", offset(World, p[1], p[2]),
                 SetToBag({p[1]}) (+) SetToBag({p[2]}))

\* The imbalance tokens: made by issue, burn, deposits and withdrawals,
\* combined, and dropped.
NextImbalance ==
  \/ Burn
  \/ Issue
  \/ DepositCreating(MaxHeld)
  \/ Withdraw(MaxHeld)
  \/ Split
  \/ Merge
  \/ Subsume
  \/ Offset
  \/ DropToken

SpecImbalance == Init /\ [][NextImbalance]_vars

\* ------------------------------------------------- the issuance calls
Deactivate ==
  \E v \in Balance :
    \E W1 \in {deactivate(World, v)} :
      Finish("deactivate", W1, "Ok", Unit, EmptyBag, BagCardinality(tokens))

Reactivate ==
  \E v \in Balance :
    \E W1 \in {reactivate(World, v)} :
      Finish("reactivate", W1, "Ok", Unit, EmptyBag, BagCardinality(tokens))

SetTotalIssuance ==
  \E v \in Balance :
    \E W1 \in {set_total_issuance(World, v)} :
      Finish("set_total_issuance", W1, "Ok", Unit, EmptyBag,
             BagCardinality(tokens))

\* Everything that moves TotalIssuance and InactiveIssuance but for the
\* accounts' own calls: issue and burn, the settlement of their tokens,
\* deactivate, reactivate and set_total_issuance.
NextIssuance ==
  \/ Issue
  \/ Burn
  \/ DropToken
  \/ Deactivate
  \/ Reactivate
  \/ SetTotalIssuance

SpecIssuance == Init /\ [][NextIssuance]_vars


\* ------------------------------------ the calls of the lib.rs Currency
\* Records a genesis build can hold where balances are reserved and frozen
\* by other subsystems.
FrozenRecords ==
  { [nonce |-> 0, sufficients |-> 0,
     data |-> [free |-> f, reserved |-> r, misc_frozen |-> m, fee_frozen |-> e]] :
      f \in Balance, r \in 0 .. MaxReserved,
      m \in 0 .. MaxFrozen, e \in 0 .. MaxFrozen }

InitFrozen ==
  /\ Account \in [AccountIds -> {Some(g) : g \in FrozenRecords} \cup {Absent}]
  /\ \A who \in AccountIds \ Actors : Account[who] = Absent
  /\ \A who \in AccountIds :
        Account[who].some =>
          /\ Account[who].v.data.free + Account[who].v.data.reserved <= max_value
          /\ total(Account[who].v.data) >= ExistentialDeposit
  /\ SumOfTotals(Account) <= max_value
  /\ TotalIssuance = SumOfTotals(Account)
  /\ InactiveIssuance = 0
  /\ events = <<>>
  /\ tokens = EmptyBag
  /\ call = "genesis"
  /\ result = [status |-> "Ok", value |-> 0]

\* The withdraw reasons the lib.rs calls are made with: one for each of
\* Fee, All and Misc.
LibWithdrawReasons ==
  {{"TRANSACTION_PAYMENT"}, {"TRANSACTION_PAYMENT", "TRANSFER"}, {"TRANSFER"}}

LibWithdraw ==
  \E who \in Actors, v \in Balance, r \in LibWithdrawReasons,
     l \in ExistenceRequirements :
    FinishCall("withdraw", lib_withdraw(World, who, v, r, l), MaxTokens)

LibSlash ==
  \E who \in Actors, v \in Balance :
    FinishCall("slash", lib_slash(World, who, v), MaxTokens)


NextLib ==
  \/ LibWithdraw
  \/ LibSlash
  \/ DropToken

SpecLib == InitFrozen /\ [][NextLib]_vars

\* ------------------------------------ the queries of fungible::Inspect
CanDeposit ==
  \E who \in Actors, v \in Balance, mint \in BOOLEAN :
    \E c \in {can_deposit(World, who, v, mint)} :
      Finish("can_deposit", World, c.kind, Returned(<<>>, c.value), EmptyBag,
             BagCardinality(tokens))

CanWithdraw ==
  \E who \in Actors, v \in Balance :
    \E c \in {can_withdraw(World, who, v)} :
      Finish("can_withdraw", World, c.kind, Returned(<<>>, c.value), EmptyBag,
             BagCardinality(tokens))

\* The queries, on a ledger that the lib.rs Currency calls move.
NextInspect ==
  \/ CanDeposit
  \/ CanWithdraw
  \/ LibWithdraw
  \/ LibSlash
  \/ DropToken

SpecInspect == InitFrozen /\ [][NextInspect]_vars


\* ------------------------------------------------------ the other calls
\* A closure that clears the entry and then fails (evm-system tests).
failing_closure(W, maybe) ==
  [ok |-> FALSE, W |-> W, maybe |-> None, r |-> "Err"]

CreateAccount ==
  \E who \in Actors :
    /\ sufficients(World, who) < MaxSufficients
    /\ \E o \in {create_account(World, who)} :
          Finish("create_account", o.W, o.r, Unit, EmptyBag, 0)

RemoveAccount ==
  \E who \in Actors :
    \E o \in {remove_account(World, who)} :
      Finish("remove_account", o.W, o.r, Unit, EmptyBag, 0)

IncAccountNonce ==
  \E who \in Actors :
    /\ account_nonce(World, who) < MaxNonce
    /\ Finish("inc_account_nonce", inc_account_nonce(World, who), "Ok", Unit,
              EmptyBag, 0)

TryMutateExistsFailing ==
  \E who \in Actors :
    FinishCall("try_mutate_exists",
               try_mutate_exists(World, who,
                 failing_closure(World, maybe_account_data(World, who))), 0)

\* ---------------------------------------------- the calls of fungible
Preservations == {"Expendable", "Preserve", "Protect"}

ReducibleBalance ==
  \E who \in Actors, p \in Preservations :
    \E n \in {reducible_balance(World, who, p)} :
      Finish("reducible_balance", World, "Ok", Returned(<<>>, n), EmptyBag, 0)


\* write_balance, the dust it hands back going to handle_dust.
WriteBalance ==
  \E who \in Actors, v \in Balance :
    \E o \in {write_balance(World, who, v)} :
      Finish("write_balance",
             IF o.maybe_dust.some THEN handle_dust(o.W, o.maybe_dust.v)
                                  ELSE o.W,
             IF o.ok THEN "Ok" ELSE o.r,
             Returned(<<>>, IF o.maybe_dust.some THEN o.maybe_dust.v ELSE 0),
             EmptyBag, 0)

\* ------------------------------------------ the calls of the account store
\* The most references the callers of create_account take on one account.
MaxReferences == 2

CreateReference ==
  \E who \in Actors :
    /\ sufficients(World, who) < MaxReferences
    /\ \E o \in {create_account(World, who)} :
          Finish("create_account", o.W, o.r, Unit, EmptyBag, 0)

\* The account store's own calls, and the balance mutations that reach it
\* through try_mutate_exists.
NextSystem ==
  \/ CreateReference
  \/ RemoveAccount
  \/ IncAccountNonce
  \/ TryMutateExistsFailing
  \/ DepositCreating(0)
  \/ Withdraw(0)

SpecSystem == Init /\ [][NextSystem]_vars


\* The fungible calls, on a ledger where other subsystems reserve balances
\* and deposits and withdrawals move them.
NextFungible ==
  \/ ReducibleBalance
  \/ WriteBalance
  \/ DepositCreating(0)
  \/ Withdraw(0)

SpecFungible == InitReserved /\ [][NextFungible]_vars


BurnFrom ==
  \E who \in Actors, v \in Balance, p \in Precisions :
    FinishCall("burn_from", burn_from(World, who, v, p), 0)

\* The calls of fungible::Mutate on a ledger that holds no reserved
\* balance, next to the Currency calls that fund and drain the accounts.
NextBurn ==
  \/ BurnFrom
  \/ DepositCreating(0)
  \/ Withdraw(0)

SpecBurn == Init /\ [][NextBurn]_vars


\* The data a balance mutation leaves in a record.
StoreData == {[AccountDataDefault EXCEPT !.free = v] : v \in Balance}

\* A closure of try_mutate_exists that succeeds and leaves maybe behind.
succeeding_closure(W, maybe) ==
  [ok |-> TRUE, W |-> W, maybe |-> maybe, r |-> Unit]

TryMutateExists ==
  \E who \in Actors, m \in {None} \cup {Some(d) : d \in StoreData} :
    FinishCall("try_mutate_exists",
               try_mutate_exists(World, who, succeeding_closure(World, m)), 0)

\* The account store under its own calls and any balance mutation, failing
\* or succeeding, that a client hands to try_mutate_exists.
NextStore ==
  \/ CreateReference
  \/ RemoveAccount
  \/ IncAccountNonce
  \/ TryMutateExistsFailing
  \/ TryMutateExists

SpecStore == Init /\ [][NextStore]_vars


\* Every call of the ledger and of the account store, the caller letting
\* the returned tokens go at once.
Next ==
  \/ Transfer(0)
  \/ Slash(0)
  \/ DepositIntoExisting(0)
  \/ DepositCreating(0)
  \/ Withdraw(0)
  \/ MakeFreeBalanceBe(0)
  \/ CreateAccount
  \/ RemoveAccount
  \/ IncAccountNonce
  \/ TryMutateExistsFailing
  \/ WriteBalance

Spec == Init /\ [][Next]_vars

\* =============================================================== properties
RECURSIVE LiveOver(_, _, _)
LiveOver(B, polarity, S) ==
  IF S = {} THEN 0
  ELSE LET t == CHOOSE y \in S : TRUE
       IN  (IF t.polarity = polarity THEN CopiesIn(t, B) * t.amount ELSE 0)
             + LiveOver(B, polarity, S \ {t})

\* The amounts of the live tokens of one polarity, added up.
Live(B, polarity) == LiveOver(B, polarity, BagToSet(B))

RECURSIVE DustOf(_)
DustOf(evs) ==
  IF evs = <<>> THEN 0
  ELSE (IF Head(evs).kind = "DustLost" THEN Head(evs).amount ELSE 0)
         + DustOf(Tail(evs))

Conserved(A, issuance, B) ==
  SumOfTotals(A) = issuance + Live(B, "Positive") - Live(B, "Negative")

\* No account's free and reserved balance add up past Balance::max_value().
TotalsExact(A) ==
  \A who \in AccountIds :
    A[who].some => A[who].v.data.free + A[who].v.data.reserved <= max_value

\* The step settles every amount in full: the dust it collects and the
\* token it drops move TotalIssuance by their whole amount.
SettledInFull ==
  /\ DustOf(events') <= TotalIssuance
  /\ call' = "drop" =>
       \A t \in BagToSet(tokens) :
         tokens' = tokens (-) SetToBag({t}) =>
           IF t.polarity = "Positive"
           THEN TotalIssuance + t.amount <= max_value
           ELSE t.amount <= TotalIssuance

C2_ErrorAtomicity ==
  [][(/\ call' \in {"transfer", "withdraw", "deposit_into_existing",
                    "try_mutate_exists"}
      /\ result'.status # "Ok")
       => /\ Account' = Account
          /\ TotalIssuance' = TotalIssuance
          /\ InactiveIssuance' = InactiveIssuance
          /\ events' = <<>>]_vars

\* A transfer has failed on the liveness check, the last check of its inner
\* closure, with a referenced record in the store.
C2_Witness ==
  /\ call = "transfer" /\ result.status = "KeepAlive"
  /\ \E who \in AccountIds :
       Account[who].some /\ Account[who].v.sufficients > 0

\* C3 as stated: every account record in the store has total() of at least
\* the existential deposit.
C3_EDInvariant ==
  \A who \in AccountIds :
    Account[who].some => total(Account[who].v.data) >= ExistentialDeposit

\* C3, amended: every account record in the store has total() of at least
\* the existential deposit or holds the all-zero balance payload (a record
\* made by create_account or inc_account_nonce).
C3_EDInvariantOrDefault ==
  \A who \in AccountIds :
    Account[who].some =>
      \/ total(Account[who].v.data) >= ExistentialDeposit
      \/ Account[who].v.data = AccountDataDefault

\* After a write_balance the store holds a funded record beside a record
\* with the all-zero payload.
C3_Witness ==
  /\ call = "write_balance" /\ result.status = "Ok"
  /\ \E who \in AccountIds :
       Account[who].some /\ Account[who].v.data = AccountDataDefault
  /\ \E who \in AccountIds :
       Account[who].some /\ Account[who].v.data.free >= ExistentialDeposit

\* What dropping token t makes of the issuance.
Settled(t, issuance) ==
  IF t.polarity = "Positive" THEN saturating_add(issuance, t.amount)
                             ELSE saturating_sub(issuance, t.amount)

Net(B) == Live(B, "Positive") - Live(B, "Negative")

Gross(B) == Live(B, "Positive") + Live(B, "Negative")

\* C4: a token that is dropped leaves the live tokens and moves
\* TotalIssuance by its amount once, saturating; split, merge, subsume and
\* offset consume their inputs, hand on their amounts and leave
\* TotalIssuance alone; a call that makes a token (issue, burn, a deposit, a
\* withdrawal) adds it to the live tokens, none of which disappears, and the
\* dust a call collects is taken off TotalIssuance once.
C4_TokensConsumedOnce ==
  [][/\ call' = "drop" =>
          \E t \in BagToSet(tokens) :
            /\ tokens' = tokens (-) SetToBag({t})
            /\ TotalIssuance' = Settled(t, TotalIssuance)
     /\ call' \in {"split", "merge", "subsume", "offset"} =>
          TotalIssuance' = TotalIssuance
     /\ call' = "split" =>
          /\ BagCardinality(tokens') = BagCardinality(tokens) + 1
          /\ Live(tokens', "Positive") = Live(tokens, "Positive")
          /\ Live(tokens', "Negative") = Live(tokens, "Negative")
     /\ call' \in {"merge", "subsume"} =>
          /\ BagCardinality(tokens') = BagCardinality(tokens) - 1
          /\ \/ /\ Live(tokens', "Positive") = Live(tokens, "Positive")
                /\ Live(tokens', "Negative") = Live(tokens, "Negative")
             \/ /\ Gross(tokens') < Gross(tokens)
                /\ \E t \in BagToSet(tokens') : t.amount = max_value
     /\ call' = "offset" =>
          /\ BagCardinality(tokens') \in
               {BagCardinality(tokens) - 1, BagCardinality(tokens) - 2}
          /\ Net(tokens') = Net(tokens)
          /\ Gross(tokens') <= Gross(tokens)
     /\ call' \in {"issue", "burn", "deposit_creating", "withdraw"} =>
          /\ \A t \in BagToSet(tokens) :
               CopiesIn(t, tokens') >= CopiesIn(t, tokens)
          /\ BagCardinality(tokens') =
               BagCardinality(tokens) + (IF result'.status = "Ok" THEN 1 ELSE 0)
     /\ call' \in {"deposit_creating", "withdraw"} =>
          TotalIssuance' = saturating_sub(TotalIssuance, DustOf(events'))
    ]_vars

\* A split has cut a live token in two parts that both carry an amount,
\* after which the issuance is still to be settled by both.
C4_Witness ==
  /\ call = "split"
  /\ BagCardinality(tokens) = 2
  /\ \A t \in BagToSet(tokens) : t.amount > 0 /\ t.polarity = "Negative"

\* ------------------------------------------------- properties of transfer
\* The transfers with distinct accounts: <<from, to, value, requirement>>.
Transfers ==
  { x \in AccountIds \X AccountIds \X Balance \X ExistenceRequirements :
      x[1] # x[2] }

\* The working copies transfer's closure computes.
Debited(W, who, value) == [account(W, who) EXCEPT !.free = @ - value]
Credited(W, who, value) == [account(W, who) EXCEPT !.free = @ + value]

TransferEvents(evs) == SelectSeq(evs, LAMBDA e : e.kind = "Transfer")

\* What C5 says of every account but the source.
TransferKeeps(o, x) ==
  /\ free_balance(o.W, x[2]) = free_balance(World, x[2]) + x[3]
  /\ \A other \in AccountIds \ {x[1], x[2]} :
       o.W.Account[other] = Account[other]
  /\ TransferEvents(o.W.events) =
       <<[kind |-> "Transfer", from |-> x[1], to |-> x[2], amount |-> x[3]]>>

\* C5 as stated: a successful transfer between distinct accounts of a
\* value above zero takes exactly value off the source's free balance, adds
\* exactly value to the destination's, leaves every other account as it
\* was and emits exactly one Transfer event.
C5_TransferEffect ==
  \A x \in Transfers :
    x[3] > 0 =>
      \A o \in {transfer(World, x[1], x[2], x[3], x[4])} :
        o.ok =>
          /\ free_balance(o.W, x[1]) = free_balance(World, x[1]) - x[3]
          /\ TransferKeeps(o, x)

\* C5, amended: ... takes exactly value off the source's free balance
\* unless that leaves the source's total below the existential deposit, in
\* which case the source record is reaped and reads zero; the rest as stated.
C5_TransferEffectOrReaped ==
  \A x \in Transfers :
    x[3] > 0 =>
      \A o \in {transfer(World, x[1], x[2], x[3], x[4])} :
        o.ok =>
          /\ IF total(Debited(World, x[1], x[3])) >= ExistentialDeposit
             THEN free_balance(o.W, x[1]) = free_balance(World, x[1]) - x[3]
             ELSE ~account_exists(o.W, x[1])
          /\ TransferKeeps(o, x)

\* A transfer has succeeded between two accounts that both still exist,
\* with a third account in the store.
C5_Witness ==
  /\ call = "transfer" /\ result.status = "Ok"
  /\ Len(TransferEvents(events)) = 1
  /\ \A who \in AccountIds : Account[who].some

WouldKill(x) ==
  /\ 0 < x[3] /\ x[3] <= free_balance(World, x[1])
  /\ total(Debited(World, x[1], x[3])) < ExistentialDeposit

\* The credit fits the destination and leaves it at or above the
\* existential deposit.
CreditAccepted(x) ==
  /\ checked_add_ok(free_balance(World, x[2]), x[3])
  /\ total(Credited(World, x[2], x[3])) >= ExistentialDeposit

KeepAliveFails(x) ==
  /\ \A o \in {transfer(World, x[1], x[2], x[3], "KeepAlive")} :
       ~o.ok /\ o.r = "KeepAlive" /\ o.W = World
  /\ transfer(World, x[1], x[2], x[3], "AllowDeath").ok

\* C7 as stated: a KeepAlive transfer between distinct accounts that would
\* leave the source's total below the existential deposit fails with
\* KeepAlive and changes nothing; the same transfer with AllowDeath succeeds.
C7_KeepAlive ==
  \A x \in Transfers : WouldKill(x) => KeepAliveFails(x)

\* C7, amended: ... provided the credit neither overflows the destination's
\* free balance nor leaves the destination below the existential deposit.
C7_KeepAliveAfterCredit ==
  \A x \in Transfers : (WouldKill(x) /\ CreditAccepted(x)) => KeepAliveFails(x)

C7_Witness ==
  /\ call = "transfer" /\ result.status = "KeepAlive"
  /\ \E x \in Transfers : WouldKill(x) /\ CreditAccepted(x)

\* The credit would leave the destination's total below the existential
\* deposit.
CreditBelowED(x) ==
  /\ x[3] > 0
  /\ checked_add_ok(free_balance(World, x[2]), x[3])
  /\ total(Credited(World, x[2], x[3])) < ExistentialDeposit

C10_TransferToSelf ==
  \A s \in AccountIds, v \in Balance, e \in ExistenceRequirements :
    \A o \in {transfer(World, s, s, v, e)} : o.ok /\ o.W = World

\* A transfer to oneself has returned Ok with no event, while no actor
\* could have paid the largest value.
C10_Witness ==
  /\ call = "transfer_to_self" /\ result.status = "Ok" /\ events = <<>>
  /\ \A who \in Actors : free_balance(World, who) < max_value

\* ------------------------------------------- properties of a zero amount
\* The call succeeded, left the world as it was and handed back toks.
NoOp(o, toks) == o.ok /\ o.W = World /\ o.r.tokens = toks

\* C11: transfer, slash, deposit_into_existing, deposit_creating, withdraw,
\* issue and burn called with the amount 0 succeed, hand back a zero token
\* where they hand back one, leave every account record, TotalIssuance and
\* InactiveIssuance as they were and deposit no event, whether or not the
\* account exists.
C11_IdempotenceOfZero ==
  /\ \A s \in AccountIds, d \in AccountIds, e \in ExistenceRequirements :
       \A o \in {transfer(World, s, d, 0, e)} : NoOp(o, <<>>)
  /\ \A who \in AccountIds :
       /\ \A o \in {slash(World, who, 0)} :
            NoOp(o, <<NegativeImbalance(0)>>) /\ o.r.value = 0
       /\ \A o \in {deposit_into_existing(World, who, 0)} :
            NoOp(o, <<PositiveImbalance(0)>>)
       /\ \A o \in {deposit_creating(World, who, 0)} :
            NoOp(o, <<PositiveImbalance(0)>>)
       /\ \A r \in WithdrawReasons, l \in ExistenceRequirements :
            \A o \in {withdraw(World, who, 0, r, l)} :
              NoOp(o, <<NegativeImbalance(0)>>)
  /\ \A o \in {issue(World, 0)} :
       o.W = World /\ o.r.tokens = <<NegativeImbalance(0)>>
  /\ \A o \in {burn(World, 0)} :
       o.W = World /\ o.r.tokens = <<PositiveImbalance(0)>>

\* A burn of nothing has returned: the zero token is the only one alive,
\* the issuance is above zero and still the sum of the account totals.
C11_Witness ==
  /\ call = "burn" /\ result.status = "Ok"
  /\ tokens = SetToBag({PositiveImbalance(0)})
  /\ TotalIssuance > 0
  /\ TotalIssuance = SumOfTotals(Account)
  /\ events = <<>>

\* ------------------------------------------------ properties of reaping
EventsOf(evs, kind, who) ==
  SelectSeq(evs, LAMBDA e : e.kind = kind /\ e.account = who)

DustEvents(evs) == SelectSeq(evs, LAMBDA e : e.kind = "DustLost")

\* The call succeeded and reaped who without dust: no record, a free
\* balance of zero, no dust token, one KilledAccount.
ReapedClean(o, who) ==
  o.ok =>
    /\ ~account_exists(o.W, who)
    /\ free_balance(o.W, who) = 0
    /\ DustEvents(o.W.events) = <<>>
    /\ o.W.TotalIssuance = TotalIssuance
    /\ Len(EventsOf(o.W.events, "KilledAccount", who)) = 1

\* who has a record with funds, and a debit of value empties it.
Emptied(who, value) ==
  /\ account_exists(World, who)
  /\ 0 < value /\ value <= free_balance(World, who)
  /\ total(Debited(World, who, value)) = 0

Withdrawals ==
  AccountIds \X Balance \X WithdrawReasons \X ExistenceRequirements

WithdrawEvents(evs) == SelectSeq(evs, LAMBDA e : e.kind = "Withdraw")

\* What C13 says of a failed and of a successful withdrawal, but for the
\* free balance left.
WithdrawReturns(o, x) ==
  /\ x[2] > free_balance(World, x[1]) =>
       ~o.ok /\ o.r = "InsufficientBalance" /\ o.W = World
  /\ (o.ok /\ x[2] > 0) =>
       /\ o.r.tokens = <<NegativeImbalance(x[2])>>
       /\ WithdrawEvents(o.W.events) =
            <<[kind |-> "Withdraw", who |-> x[1], amount |-> x[2]]>>

\* C13 as stated: a withdrawal of more than the free balance fails with
\* InsufficientBalance and changes nothing; one that succeeds takes exactly
\* value off the free balance, returns a negative token of value and
\* deposits exactly one Withdraw event.
C13_Withdraw ==
  \A x \in Withdrawals :
    \A o \in {withdraw(World, x[1], x[2], x[3], x[4])} :
      /\ WithdrawReturns(o, x)
      /\ (o.ok /\ x[2] > 0) =>
           free_balance(o.W, x[1]) = free_balance(World, x[1]) - x[2]

\* C13, amended: ... one that succeeds takes exactly value off the free
\* balance unless that leaves the account's total below the existential
\* deposit, in which case the record is reaped and reads zero; the rest as
\* stated.
C13_WithdrawOrReaped ==
  \A x \in Withdrawals :
    \A o \in {withdraw(World, x[1], x[2], x[3], x[4])} :
      /\ WithdrawReturns(o, x)
      /\ (o.ok /\ x[2] > 0) =>
           IF total(Debited(World, x[1], x[2])) >= ExistentialDeposit
           THEN free_balance(o.W, x[1]) = free_balance(World, x[1]) - x[2]
           ELSE ~account_exists(o.W, x[1]) /\ free_balance(o.W, x[1]) = 0

\* A withdrawal has succeeded and left less than the existential deposit:
\* the record is gone and the rest of its balance was lost as dust.
C13_Witness ==
  /\ call = "withdraw" /\ result.status = "Ok"
  /\ Len(WithdrawEvents(events)) = 1
  /\ Len(DustEvents(events)) = 1
  /\ ~Account[WithdrawEvents(events)[1].who].some

\* The withdrawals of the lib.rs Currency but for the liveness:
\* <<who, value, reasons>>.
LibWithdrawals == AccountIds \X Balance \X LibWithdrawReasons

\* The call failed with error e and left the world as it was.
FailsWith(o, e) == ~o.ok /\ o.r = e /\ o.W = World

\* The account's total is at least the existential deposit and taking
\* value off would bring it below.
TotalWouldDrop(who, value) ==
  /\ total(account(World, who)) >= ExistentialDeposit
  /\ total(account(World, who)) - value < ExistentialDeposit

\* The same of the free balance alone.
FreeWouldDrop(who, value) ==
  /\ free_balance(World, who) >= ExistentialDeposit
  /\ free_balance(World, who) - value < ExistentialDeposit

\* The free balance covers the value.
Covered(who, value) == value <= free_balance(World, who)

\* The free balance left is not below the frozen floor for the reasons.
AboveFloor(who, value, r) ==
  free_balance(World, who) - value
    >= frozen(account(World, who), ReasonsFrom(r))

\* C14 as stated: a KeepAlive withdrawal fails with KeepAlive, the account
\* untouched, exactly when the account's total is at least the existential
\* deposit and the withdrawal would bring it below; the same withdrawal
\* with AllowDeath succeeds.  Of lib.rs and of impl_currency.rs.
C14_WithdrawKeepAlive ==
  \A x \in LibWithdrawals :
    /\ FailsWith(lib_withdraw(World, x[1], x[2], x[3], "KeepAlive"), "KeepAlive")
         <=> TotalWouldDrop(x[1], x[2])
    /\ TotalWouldDrop(x[1], x[2]) =>
         lib_withdraw(World, x[1], x[2], x[3], "AllowDeath").ok
    /\ FailsWith(withdraw(World, x[1], x[2], "All", "KeepAlive"), "KeepAlive")
         <=> TotalWouldDrop(x[1], x[2])
    /\ TotalWouldDrop(x[1], x[2]) =>
         withdraw(World, x[1], x[2], "All", "AllowDeath").ok

\* C14, amended: ... exactly when the free balance covers the value, the
\* total is at least the existential deposit and the withdrawal would bring
\* it below; the same withdrawal with AllowDeath succeeds unless it leaves
\* the free balance below the frozen floor, when it fails with
\* LiquidityRestrictions.  impl_currency.rs, which keeps neither reserved
\* nor frozen amounts, takes the free balance for the total and has no
\* floor.
C14_WithdrawKeepAliveWhenCovered ==
  \A x \in LibWithdrawals :
    /\ FailsWith(lib_withdraw(World, x[1], x[2], x[3], "KeepAlive"), "KeepAlive")
         <=> (Covered(x[1], x[2]) /\ TotalWouldDrop(x[1], x[2]))
    /\ (Covered(x[1], x[2]) /\ TotalWouldDrop(x[1], x[2])) =>
         \A o \in {lib_withdraw(World, x[1], x[2], x[3], "AllowDeath")} :
           IF AboveFloor(x[1], x[2], x[3]) THEN o.ok
           ELSE FailsWith(o, "LiquidityRestrictions")
    /\ FailsWith(withdraw(World, x[1], x[2], "All", "KeepAlive"), "KeepAlive")
         <=> (Covered(x[1], x[2]) /\ FreeWouldDrop(x[1], x[2]))
    /\ (Covered(x[1], x[2]) /\ FreeWouldDrop(x[1], x[2])) =>
         withdraw(World, x[1], x[2], "All", "AllowDeath").ok

\* A KeepAlive withdrawal has failed with KeepAlive where every caller's
\* free balance is below the existential deposit and only the reserved
\* balance lifts the total to it.
C14_Witness ==
  /\ call = "withdraw" /\ result.status = "KeepAlive"
  /\ \A who \in Actors :
       /\ Account[who].some
       /\ Account[who].v.data.free < ExistentialDeposit
       /\ total(Account[who].v.data) >= ExistentialDeposit

\* C15 as stated: a withdrawal of a value above zero, and within the free
\* balance, that would leave it below the frozen floor for its reasons fails with
\* LiquidityRestrictions and changes nothing, and no withdrawal succeeds in
\* leaving the free balance below the floor.  Of lib.rs.
C15_FrozenFloor ==
  \A x \in LibWithdrawals, l \in ExistenceRequirements :
    x[2] > 0 =>
      \A o \in {lib_withdraw(World, x[1], x[2], x[3], l)} :
        /\ (Covered(x[1], x[2]) /\ ~AboveFloor(x[1], x[2], x[3])) =>
             FailsWith(o, "LiquidityRestrictions")
        /\ o.ok => AboveFloor(x[1], x[2], x[3])

\* C15, amended: a withdrawal of a value above zero, within the free balance
\* and passing the liveness check, that would leave the free balance below the
\* frozen floor for its reasons fails with LiquidityRestrictions and changes
\* nothing; no withdrawal succeeds in leaving the free balance below the floor;
\* the withdraw of impl_currency.rs never fails with LiquidityRestrictions.
C15_FrozenFloorAfterLiveness ==
  \A x \in LibWithdrawals, l \in ExistenceRequirements :
    x[2] > 0 =>
      /\ \A o \in {lib_withdraw(World, x[1], x[2], x[3], l)} :
           /\ (/\ Covered(x[1], x[2])
               /\ ~(l = "KeepAlive" /\ TotalWouldDrop(x[1], x[2]))
               /\ ~AboveFloor(x[1], x[2], x[3])) =>
                FailsWith(o, "LiquidityRestrictions")
           /\ o.ok => AboveFloor(x[1], x[2], x[3])
      /\ \A o \in {withdraw(World, x[1], x[2], "All", l)} :
           o.ok \/ o.r # "LiquidityRestrictions"

\* A withdrawal has failed with LiquidityRestrictions in a ledger whose
\* accounts each have two different frozen amounts.
C15_Witness ==
  /\ call = "withdraw" /\ result.status = "LiquidityRestrictions"
  /\ \A who \in Actors :
       Account[who].some =>
         Account[who].v.data.misc_frozen # Account[who].v.data.fee_frozen
  /\ \E who \in Actors : Account[who].some

\* -------------------------------------------------- properties of slash
SlashedEvents(evs) == SelectSeq(evs, LAMBDA e : e.kind = "Slashed")

\* The account of who with s slashed off it, the free balance first.
SlashedOff(W, who, s) ==
  [account(W, who) EXCEPT
     !.free = @ - Min(@, s),
     !.reserved = @ - (s - Min(account(W, who).free, s))]

\* What C16 says of the slash of value off who that came out as o, s being
\* the amount the variant can take, but for the balance left.
SlashReturns(o, who, value, s) ==
  /\ o.ok
  /\ (value > 0 /\ total_balance(World, who) # 0) =>
       /\ s <= value
       /\ o.r = Returned(<<NegativeImbalance(s)>>, value - s)
       /\ o.r.tokens[1].amount + o.r.value = value
       /\ SlashedEvents(o.W.events) =
            <<[kind |-> "Slashed", who |-> who, amount |-> s]>>
  /\ (value > 0 /\ total_balance(World, who) = 0) =>
       /\ o.r = Returned(<<NegativeImbalance(0)>>, value)
       /\ o.W = World

\* The amount each variant can take: the free balance (impl_currency.rs),
\* the free and the reserved balance (lib.rs).
SlashableFree(who, value) == Min(value, free_balance(World, who))
SlashableTotal(who, value) == Min(value, total_balance(World, who))

\* C16 as stated: slash never fails; of a value above zero off an account
\* with a total above zero it removes s, the value capped by the free balance
\* (by the total where reserved funds are slashed), returns a negative token
\* of s and the remainder value - s, and deposits one Slashed event of s; off
\* an account with a total of zero it returns a zero token and value, and
\* changes nothing.
C16_Slash ==
  \A who \in Actors, value \in Balance :
    /\ \A o \in {slash(World, who, value)} :
         /\ SlashReturns(o, who, value, SlashableFree(who, value))
         /\ (value > 0 /\ total_balance(World, who) # 0) =>
              account(o.W, who) =
                SlashedOff(World, who, SlashableFree(who, value))
    /\ \A o \in {lib_slash(World, who, value)} :
         /\ SlashReturns(o, who, value, SlashableTotal(who, value))
         /\ (value > 0 /\ total_balance(World, who) # 0) =>
              account(o.W, who) =
                SlashedOff(World, who, SlashableTotal(who, value))

\* What is left of who after s was slashed off: the rest of the balance, or
\* nothing at all when the rest is below the existential deposit.
SlashedOrReaped(o, who, s) ==
  IF total(SlashedOff(World, who, s)) >= ExistentialDeposit
  THEN account(o.W, who) = SlashedOff(World, who, s)
  ELSE ~account_exists(o.W, who) /\ total_balance(o.W, who) = 0

\* C16, amended: ... it removes s, and with it what is left of the account
\* when that is below the existential deposit: the record is then reaped;
\* the rest as stated.
C16_SlashOrReaped ==
  \A who \in Actors, value \in Balance :
    /\ \A o \in {slash(World, who, value)} :
         /\ SlashReturns(o, who, value, SlashableFree(who, value))
         /\ (value > 0 /\ total_balance(World, who) # 0) =>
              SlashedOrReaped(o, who, SlashableFree(who, value))
    /\ \A o \in {lib_slash(World, who, value)} :
         /\ SlashReturns(o, who, value, SlashableTotal(who, value))
         /\ (value > 0 /\ total_balance(World, who) # 0) =>
              SlashedOrReaped(o, who, SlashableTotal(who, value))

\* A slash of more than the account held has taken all of it, reaping the
\* record, and handed back the remainder.
C16_Witness ==
  /\ call = "slash" /\ result.status = "Ok" /\ result.value > 0
  /\ Len(SlashedEvents(events)) = 1
  /\ SlashedEvents(events)[1].amount > 1
  /\ ~Account[SlashedEvents(events)[1].who].some
  /\ \E t \in BagToSet(tokens) :
       t = NegativeImbalance(SlashedEvents(events)[1].amount)


\* ------------------------------------------------ properties of deposits
DepositEvents(evs) == SelectSeq(evs, LAMBDA e : e.kind = "Deposit")

\* What C17 says of the deposit of value into who that came out as o, but
\* for the free balance left.
DepositIntoExistingReturns(o, who, value) ==
  IF ~account_exists(World, who) THEN FailsWith(o, "DeadAccount")
  ELSE IF free_balance(World, who) + value > max_value
    THEN FailsWith(o, "Overflow")
  ELSE /\ o.ok
       /\ o.r = Returned(<<PositiveImbalance(value)>>, 0)
       /\ DepositEvents(o.W.events) =
            <<[kind |-> "Deposit", who |-> who, amount |-> value]>>

\* The deposit of value into who goes through.
DepositGoesThrough(who, value) ==
  /\ account_exists(World, who)
  /\ free_balance(World, who) + value <= max_value

\* C17 as stated: a deposit of a value above zero into an account without a
\* record fails with DeadAccount, one that overflows the free balance fails
\* with Overflow, both changing nothing; any other raises the free balance by
\* exactly value, returns a positive token of value and deposits one Deposit
\* event.
C17_DepositIntoExisting ==
  \A who \in AccountIds, value \in Balance :
    value > 0 =>
      \A o \in {deposit_into_existing(World, who, value)} :
        /\ DepositIntoExistingReturns(o, who, value)
        /\ DepositGoesThrough(who, value) =>
             free_balance(o.W, who) = free_balance(World, who) + value

\* C17, amended: ... any other returns a positive token of value, deposits
\* one Deposit event and raises the free balance by exactly value, unless
\* that leaves the account's total below the existential deposit, in which
\* case the record is reaped and reads zero.
C17_DepositIntoExistingOrReaped ==
  \A who \in AccountIds, value \in Balance :
    value > 0 =>
      \A o \in {deposit_into_existing(World, who, value)} :
        /\ DepositIntoExistingReturns(o, who, value)
        /\ DepositGoesThrough(who, value) =>
             IF total(Credited(World, who, value)) >= ExistentialDeposit
             THEN free_balance(o.W, who) = free_balance(World, who) + value
             ELSE ~account_exists(o.W, who) /\ free_balance(o.W, who) = 0

\* A deposit into an existing account has gone through and the account holds
\* it on top of what it held.
C17_Witness ==
  /\ call = "deposit_into_existing" /\ result.status = "Ok"
  /\ Len(DepositEvents(events)) = 1
  /\ Account[DepositEvents(events)[1].who].some
  /\ Account[DepositEvents(events)[1].who].v.data.free
       > DepositEvents(events)[1].amount


\* The deposit of value that would create who is below the existential
\* deposit, or overflows the free balance of who.
DepositCreatingBails(who, value) ==
  \/ ~account_exists(World, who) /\ value < ExistentialDeposit
  \/ free_balance(World, who) + value > max_value

\* C18: deposit_creating of a value below the existential deposit for an
\* account without a record, or of a value that overflows the free balance,
\* returns a zero positive token and changes nothing: no record, no balance,
\* no issuance, no event.
C18_DepositCreatingNoOp ==
  \A who \in AccountIds, value \in Balance :
    DepositCreatingBails(who, value) =>
      \A o \in {deposit_creating(World, who, value)} :
        /\ NoOp(o, <<PositiveImbalance(0)>>)
        /\ ~account_exists(World, who) => ~account_exists(o.W, who)
        /\ o.W.events = <<>>


\* deposit_creating has come back having changed nothing, on a ledger where
\* one account is absent, so that a deposit below the existential deposit
\* does not create it, and another holds the largest balance, so that any
\* deposit overflows it.
C18_Witness ==
  /\ call = "deposit_creating" /\ result.status = "Ok" /\ events = <<>>
  /\ \E who \in Actors : ~Account[who].some
  /\ \E who \in Actors :
       Account[who].some /\ Account[who].v.data.free = max_value


\* ------------------------------------------- properties of new accounts
\* The call that came out as o has made the account of who, holding amount.
Created(o, who, amount) ==
  /\ o.ok
  /\ account_exists(o.W, who)
  /\ total_balance(o.W, who) = amount
  /\ Len(EventsOf(o.W.events, "NewAccount", who)) = 1
  /\ EventsOf(o.W.events, "Endowed", who) =
       <<[kind |-> "Endowed", account |-> who, free_balance |-> amount]>>

\* C19: deposit_creating and make_free_balance_be of a value at or above the
\* existential deposit on an account without a record, and a transfer that
\* succeeds to a destination without a record, make the record, give it a
\* total of the value and deposit exactly one NewAccount and exactly one
\* Endowed event for the account, the latter carrying its new free balance.
C19_NewAccount ==
  \A who \in AccountIds, value \in Balance :
    ~account_exists(World, who) =>
      /\ value >= ExistentialDeposit =>
           /\ \A o \in {deposit_creating(World, who, value)} :
                Created(o, who, value)
           /\ \A o \in {make_free_balance_be(World, who, value)} :
                Created(o, who, value)
      /\ \A s \in AccountIds \ {who}, e \in ExistenceRequirements :
           \A o \in {transfer(World, s, who, value, e)} :
             (o.ok /\ value > 0) => Created(o, who, value)

\* A transfer has made its destination: the account exists, and NewAccount
\* and Endowed were deposited for it.
C19_Witness ==
  /\ call = "transfer" /\ result.status = "Ok"
  /\ \E who \in Actors :
       /\ Account[who].some
       /\ Len(EventsOf(events, "NewAccount", who)) = 1
       /\ EventsOf(events, "Endowed", who) =
            <<[kind |-> "Endowed", account |-> who,
               free_balance |-> Account[who].v.data.free]>>


\* ------------------------------------------ properties of issue and burn
\* The call that came out as o has returned the token t, left the issuance
\* at after and touched nothing else, and dropping the token at once puts
\* the issuance back.
Reissued(o, t, after) ==
  /\ o.r = Returned(<<t>>, 0)
  /\ o.W = [World EXCEPT !.TotalIssuance = after]
  /\ drop(o.W, t).TotalIssuance = TotalIssuance
  /\ drop(o.W, t) = World

\* C20: burn(a) lowers TotalIssuance by the smaller of a and TotalIssuance
\* and returns a positive token of that amount; issue(a) raises it by the
\* smaller of a and the room left below max_value and returns a negative
\* token of that amount; neither fails, and dropping the token straight away
\* restores TotalIssuance.
C20_IssueBurnSaturate ==
  \A a \in Balance :
    /\ \A o \in {burn(World, a)} :
         Reissued(o, PositiveImbalance(Min(a, TotalIssuance)),
                  TotalIssuance - Min(a, TotalIssuance))
    /\ \A o \in {issue(World, a)} :
         Reissued(o, NegativeImbalance(Min(a, max_value - TotalIssuance)),
                  TotalIssuance + Min(a, max_value - TotalIssuance))

\* burn has taken the whole issuance of a ledger that holds balances, and
\* its token is held.
C20_Witness ==
  /\ call = "burn" /\ result.status = "Ok"
  /\ TotalIssuance = 0
  /\ SumOfTotals(Account) > 0
  /\ tokens = SetToBag({PositiveImbalance(SumOfTotals(Account))})


\* ------------------------------------- properties of make_free_balance_be
BalanceSetEvents(evs) == SelectSeq(evs, LAMBDA e : e.kind = "BalanceSet")

\* The signed difference between a free balance old and the value set.
SignedDelta(old, value) ==
  IF old <= value THEN PositiveImbalance(value - old)
                  ELSE NegativeImbalance(old - value)

\* make_free_balance_be refuses: who has no record and value is below the
\* existential deposit.
Refused(who, value) ==
  ~account_exists(World, who) /\ value < ExistentialDeposit

\* What C21 says of setting the free balance of who to value, o being what
\* came out, but for the free balance left.
MakeFreeBalanceBeReturns(o, who, value) ==
  IF Refused(who, value)
  THEN /\ NoOp(o, <<PositiveImbalance(0)>>)
       /\ ~account_exists(o.W, who)
       /\ BalanceSetEvents(o.W.events) = <<>>
  ELSE /\ o.ok
       /\ o.r = Returned(<<SignedDelta(free_balance(World, who), value)>>, 0)
       /\ BalanceSetEvents(o.W.events) =
            <<[kind |-> "BalanceSet", who |-> who, free |-> value]>>

C22_SplitMergeRoundTrip ==
  \A t \in BagToSet(tokens), a \in Balance :
    \A s \in {split(World, t, a)} :
      /\ s.W = World
      /\ s.tokens = <<[t EXCEPT !.amount = Min(a, t.amount)],
                      [t EXCEPT !.amount = t.amount - Min(a, t.amount)]>>
      /\ s.tokens[1].amount + s.tokens[2].amount = t.amount
      /\ \A m \in {merge(s.W, s.tokens[1], s.tokens[2])} :
           /\ m.tokens = <<t>>
           /\ m.W = World
           /\ m.W.TotalIssuance = TotalIssuance

\* A token has been split in two tokens that each hold a part of it.
C22_Witness ==
  /\ call = "split" /\ result.status = "Ok"
  /\ \E p \in SamePolarityPairs :
       /\ p[1].amount > 0 /\ p[2].amount > 0
       /\ p[1].amount + p[2].amount <= max_value


\* C23: offset of a held token of amount a against a held token of the
\* opposite polarity of amount b yields a token of the first one's polarity
\* of amount a - b when a > b, one of the other's polarity of amount b - a
\* when b > a, and none when a = b; neither input is settled against
\* TotalIssuance: the ledger is left as it was.
C23_Offset ==
  \A p \in OppositePairs :
    \A o \in {offset(World, p[1], p[2])} :
      /\ o.W = World
      /\ Len(o.tokens) <= 1
      /\ p[1].amount > p[2].amount =>
           o.tokens = <<[polarity |-> p[1].polarity,
                         amount |-> p[1].amount - p[2].amount]>>
      /\ p[2].amount > p[1].amount =>
           o.tokens = <<[polarity |-> p[2].polarity,
                         amount |-> p[2].amount - p[1].amount]>>
      /\ p[1].amount = p[2].amount => o.tokens = <<>>

\* Two opposite tokens have been offset and one residual token is held.
C23_Witness ==
  /\ call = "offset" /\ result.status = "Ok"
  /\ BagCardinality(tokens) = 1
  /\ \E t \in BagToSet(tokens) : t.amount > 0


\* ------------------------------------------- properties of the issuance
\* C24: InactiveIssuance never exceeds TotalIssuance, whatever deactivate,
\* reactivate, issue, burn, set_total_issuance and the settlement of tokens
\* have done.
C24_InactiveWithinTotal == InactiveIssuance <= TotalIssuance


\* ---------------------------------------- properties of the consequences
\* The ledger is as it was: accounts, issuance and held tokens.
LedgerUnchanged ==
  /\ Account' = Account
  /\ TotalIssuance' = TotalIssuance
  /\ InactiveIssuance' = InactiveIssuance
  /\ tokens' = tokens

\* What C25 says deposit_consequence answers for amount and account acc.
DepositAnswer(amount, acc, mint) ==
  IF amount = 0 THEN "Success"
  ELSE IF mint /\ TotalIssuance + amount > max_value THEN "Overflow"
  ELSE IF total(acc) + amount > max_value THEN "Overflow"
  ELSE IF total(acc) + amount < ExistentialDeposit THEN "BelowMinimum"
  ELSE "Success"

\* Every account record the ledger can hand to a consequence: those stored
\* and the default one of an absent account.
HeldAccounts == {account(World, who) : who \in AccountIds}

\* C25: deposit_consequence answers Success for an amount of zero, else
\* Overflow when minting overflows TotalIssuance, else Overflow when the
\* amount overflows the account's total, else BelowMinimum when the total it
\* makes is below the existential deposit, else Success; and asking changes
\* nothing.
C25_DepositConsequence ==
  /\ [](\A who \in AccountIds, amount \in Balance, mint \in BOOLEAN,
          acc \in HeldAccounts :
          deposit_consequence(World, who, amount, acc, mint)
            = Consequence(DepositAnswer(amount, acc, mint), 0))
  /\ [][call' = "can_deposit" => LedgerUnchanged /\ events' = <<>>]_vars

\* can_deposit has answered BelowMinimum: the amount overflows nothing and
\* leaves the account below the existential deposit.
C25_Witness ==
  /\ call = "can_deposit" /\ result.status = "BelowMinimum"
  /\ TotalIssuance = max_value


\* What C26 says withdraw_consequence answers for amount and account acc.
WithdrawAnswer(amount, acc) ==
  IF amount = 0 THEN Consequence("Success", 0)
  ELSE IF TotalIssuance < amount THEN Consequence("Underflow", 0)
  ELSE IF total(acc) < amount \/ acc.free < amount
    THEN Consequence("NoFunds", 0)
  ELSE IF acc.free - amount < Max(acc.misc_frozen, acc.fee_frozen)
    THEN Consequence("Frozen", 0)
  ELSE IF total(acc) - amount < ExistentialDeposit
    THEN Consequence("ReducedToZero", total(acc) - amount)
  ELSE Consequence("Success", 0)

Unreferenced(W, who) == [StorageGet(W, who) EXCEPT !.sufficients = 0]

C28_RemoveAccount ==
  \A who \in AccountIds :
    (account_exists(World, who)
       /\ StorageGet(World, who).data = AccountDataDefault) =>
      \A o \in {remove_account(World, who)} :
        IF sufficients(World, who) <= 1
        THEN /\ o.r = "Reaped"
             /\ ~account_exists(o.W, who)
             /\ o.W.events = <<[kind |-> "KilledAccount", account |-> who]>>
        ELSE /\ o.r = "Retained"
             /\ account_exists(o.W, who)
             /\ sufficients(o.W, who) = sufficients(World, who) - 1
             /\ o.W.events = <<>>

\* C29: remove_account answers DidNotExist for an account without a record
\* and Retained for a record whose balance payload is not the default, and
\* in both cases leaves storage as it was and fires nothing.
C29_RemoveAccountRefuses ==
  \A who \in AccountIds :
    \A o \in {remove_account(World, who)} :
      /\ ~account_exists(World, who) =>
           o.r = "DidNotExist" /\ o.W = World
      /\ (account_exists(World, who)
            /\ StorageGet(World, who).data # AccountDataDefault) =>
           o.r = "Retained" /\ o.W = World

\* remove_account has answered Retained for an account that holds a balance
\* and references, and fired nothing.
C29_Witness ==
  /\ call = "remove_account" /\ result.status = "Retained"
  /\ events = <<>>
  /\ \A who \in Actors :
       /\ Account[who].some
       /\ Account[who].v.sufficients > 0
       /\ Account[who].v.data.free > 0

\* C30: no step removes a record that holds references, but remove_account
\* giving up the last one; a record that holds references keeps its nonce
\* and its references through every balance mutation.
C30_ReferencedRecordsKept ==
  [][\A who \in AccountIds :
       (Account[who].some /\ Account[who].v.sufficients > 0) =>
         IF call' = "remove_account"
         THEN Account[who].v.sufficients > 1 => Account'[who].some
         ELSE /\ Account'[who].some
              /\ Account'[who].v.nonce >= Account[who].v.nonce
              /\ Account'[who].v.sufficients >= Account[who].v.sufficients]_vars


\* ------------------------------------------- properties of fungible
\* What C31 says of reducible_balance but for the value it has under
\* Preserve and Protect: the free balance under Expendable; never more than
\* that under Preserve and Protect, and such that taking it off the free
\* balance of an account at or above the existential deposit leaves it at or
\* above it.
ReducibleWithinFree(who) ==
  \A a \in {account(World, who)} :
    /\ reducible_balance(World, who, "Expendable") = a.free
    /\ \A p \in Preservations \ {"Expendable"} :
         \A n \in {reducible_balance(World, who, p)} :
           /\ n <= reducible_balance(World, who, "Expendable")
           /\ total(a) >= ExistentialDeposit =>
                total([a EXCEPT !.free = @ - n]) >= ExistentialDeposit

\* The free balance of a less what of the existential deposit its reserved
\* balance does not cover.
FreeLessUncovered(a) ==
  saturating_sub(a.free, saturating_sub(ExistentialDeposit, a.reserved))

BurnedEvents(evs) == SelectSeq(evs, LAMBDA e : e.kind = "Burned")

\* What C32 says of burn_from(who, amount, precision) but for the size of
\* the decrease: Exact above the reducible balance fails with
\* FundsUnavailable and changes nothing; a successful BestEffort call burns
\* min(amount, reducible balance); every successful call deposits one
\* Burned event of the burned amount, and reaps with KilledAccount an
\* account it leaves with total 0.
BurnFromAnswers(o, who, amount, precision) ==
  \A rb \in {reducible_balance(World, who, "Expendable")} :
    /\ precision = "Exact" /\ amount > rb => FailsWith(o, "FundsUnavailable")
    /\ o.ok /\ precision = "BestEffort" => o.r.value = Min(amount, rb)
    /\ o.ok =>
         /\ BurnedEvents(o.W.events)
              = <<[kind |-> "Burned", who |-> who, amount |-> o.r.value]>>
         /\ account_exists(World, who) /\ balance(o.W, who) = 0 =>
              /\ ~account_exists(o.W, who)
              /\ Len(EventsOf(o.W.events, "KilledAccount", who)) = 1

SettingFree(W, acc, v) ==
  [ok |-> TRUE, W |-> W, account |-> [acc EXCEPT !.free = v], r |-> Unit]

\* C33: a successful mutation that leaves an account with 0 < total < ED
\* removes its record, hands exactly one negative token of that total to
\* the dust sink (which takes it off TotalIssuance) and deposits exactly one
\* DustLost event of the account and that total; one that leaves the total
\* at 0 or at ED or more hands on no dust and deposits no DustLost.
C33_DustExtraction ==
  \A who \in AccountIds, v \in Balance :
    \A f \in {SettingFree(World, account_arg(World, who), v)} :
      \A o \in {try_mutate_account(World, who, f)} :
        /\ o.ok
        /\ IF 0 < total(f.account) /\ total(f.account) < ExistentialDeposit
           THEN /\ ~account_exists(o.W, who)
                /\ DustEvents(o.W.events)
                     = <<[kind |-> "DustLost", account |-> who,
                          amount |-> total(f.account)]>>
                /\ o.W.TotalIssuance
                     = saturating_sub(TotalIssuance, total(f.account))
           ELSE /\ DustEvents(o.W.events) = <<>>
                /\ o.W.TotalIssuance = TotalIssuance

\* A call has left an account with dust: the record is gone and one
\* DustLost event of its rest has been deposited.
C33_Witness ==
  /\ Len(DustEvents(events)) = 1
  /\ DustEvents(events)[1].amount > 0
  /\ DustEvents(events)[1].amount < ExistentialDeposit
  /\ ~Account[DustEvents(events)[1].account].some
  /\ Len(EventsOf(events, "KilledAccount", DustEvents(events)[1].account)) = 1


\* The events by which a record is seen to be committed.
CommitKinds == {"NewAccount", "KilledAccount", "Endowed"}

\* In evs every DustLost event comes after every event of a commit.
DustAfterCommits(evs) ==
  \A i \in DOMAIN evs, j \in DOMAIN evs :
    evs[i].kind = "DustLost" /\ evs[j].kind \in CommitKinds => j < i

MaybeData == {None} \cup {Some(d) : d \in StoreData}

C36_Endowed ==
  \A who \in AccountIds, v \in Balance :
    \A o \in {try_mutate_account(World, who,
                SettingFree(World, account_arg(World, who), v))} :
      EventsOf(o.W.events, "Endowed", who) # <<>> =>
        /\ ~account_exists(World, who)
        /\ account_exists(o.W, who)
        /\ total_balance(o.W, who) >= ExistentialDeposit

\* ------------------------------------ properties of the lifecycle events
\* 1 for a record that is there, 0 for one that is not.
Exists(slot) == IF slot.some THEN 1 ELSE 0

\* C37: the lifecycle events track existence: over every call of
\* create_account, remove_account, inc_account_nonce and try_mutate_exists,
\* and for every account, the NewAccount events less the KilledAccount
\* events the call deposits are the change in whether its record exists (so
\* that from an empty store their difference is 1 for a record that exists
\* and 0 for one that does not); in particular NewAccount is never deposited
\* for an account that has a record, and no record comes into existence
\* without a NewAccount.
C37_LifecycleEvents ==
  [][\A who \in AccountIds :
       \A new \in {Len(EventsOf(events', "NewAccount", who))},
          killed \in {Len(EventsOf(events', "KilledAccount", who))} :
         /\ new - killed = Exists(Account'[who]) - Exists(Account[who])
         /\ new > 0 => ~Account[who].some
         /\ ~Account[who].some /\ Account'[who].some => new > 0]_vars


\* C38: a mutation through try_mutate_exists that leaves Some(data) on an
\* account that has a record changes the data of that record and nothing
\* else: its nonce and its sufficients, and the record of every other
\* account, are as before.
C38_Frame ==
  \A k \in AccountIds, d \in StoreData :
    account_exists(World, k) =>
      \A o \in {try_mutate_exists(World, k,
                  succeeding_closure(World, Some(d)))} :
        /\ o.ok
        /\ o.W.Account = [Account EXCEPT ![k] =
                            Some([Account[k].v EXCEPT !.data = d])]
        /\ StorageGet(o.W, k).nonce = StorageGet(World, k).nonce
        /\ StorageGet(o.W, k).sufficients = StorageGet(World, k).sufficients
        /\ \A other \in AccountIds \ {k} : o.W.Account[other] = Account[other]

\* try_mutate_exists has rewritten the data of a record that has a nonce
\* and a reference, next to another record.
C38_Witness ==
  /\ call = "try_mutate_exists" /\ result.status = "Ok" /\ events = <<>>
  /\ \E k \in Actors :
       /\ Account[k].some
       /\ Account[k].v.nonce > 0 /\ Account[k].v.sufficients > 0
       /\ Account[k].v.data.free > 0
       /\ \E other \in AccountIds \ {k} : Account[other].some


\* ------------------------------------ the predictor against the operation
\* An account that holds no reserved and no frozen balance, as every
\* account the Currency of impl_currency.rs keeps.
Plain(a) == a.reserved = 0 /\ a.misc_frozen = 0 /\ a.fee_frozen = 0

\* A set of withdraw reasons that stands for all of them.
AllReasons == {"TRANSACTION_PAYMENT", "TRANSFER"}

Signed(t) == IF t.polarity = "Positive" THEN t.amount ELSE 0 - t.amount

\* The call with outcome o on who has moved the total of who by the token
\* it hands back, less the dust it has handed to the sink.
MovedByToken(o, who) ==
  o.ok =>
    total_balance(o.W, who) - total_balance(World, who)
      = Signed(o.r.tokens[1]) - DustOf(o.W.events)

====
